---------------------------- MODULE Spec2Model ----------------------------
(***************************************************************************)
(* A model of dolphin's block-streaming engine and ministack workflow:      *)
(*   - the block planner   (io.get_max_block_shape, io._increment_until_max)*)
(*   - the block indexer   (iter_blocks, materialised by io.EagerLoader)    *)
(*   - the background reader (io.EagerLoader.iter_blocks)                   *)
(*   - the background writer (io.Writer, io.write_block)                    *)
(*   - the sequential ministack workflow                                    *)
(*       (workflows.sequential.run_wrapped_phase_sequential)                *)
(*   - the block reducer     (ps.calc_ps_block)                             *)
(* The specifications share   the variables; each one runs one component    *)
(* and leaves the others in their idle state.                              *)
(***************************************************************************)
EXTENDS Integers, Sequences, FiniteSets, TLC

VARIABLES
    \* ---- block planner ----
    p_pc,             \* "idle" | "start" | "loop" | "done"
    raw_chunk,        \* <<rows, cols>> of get_raster_chunk_size (GDAL block size)
    shape,            \* <<ysize, xsize>> of the raster
    nstack,           \* number of layers held per block
    bytes_per_pixel,  \* itemsize of the raster's dtype
    max_bytes,        \* memory budget
    file_chunk_size,  \* [chunk_rows, chunk_cols] handed to _increment_until_max
    chunks_per_block, \* the quotient max_bytes / bytes, kept as <<num, den>>
    num_chunks,       \* [rows, cols] multiples
    cur_block_shape,  \* [rows, cols]
    idx,              \* loop counter of _increment_until_max
    \* ---- block indexer and background reader ----
    r_pc,             \* main thread: "new" | "queueing" | "getting" | "yielded"
                      \*   | "finishing" | "done" | "raised" | "abandoned"
    arr_shape,        \* <<ysize, xsize>> of the file behind the loader
    block_shape,      \* <<rows, cols>>
    overlaps,         \* <<rows, cols>>
    skip_empty,       \* self._skip_empty
    nodata_mask,      \* self._nodata_mask: NoMask or [row -> BOOLEAN]
    file_nodata,      \* get_raster_nodata(filename): NoneVal, "nan" or "0"
    nodata,           \* self._nodata
    raster,           \* the file's samples: [row -> sample]
    queue_size,       \* nq of the reader
    slices,           \* self.slices
    next_slice,       \* position of the queueing loop in self.slices
    queued_slices,    \* queued_slices of iter_blocks
    n_got,            \* iterations done of the retrieval loop
    work_queue,       \* read requests waiting for the worker
    results_queue,    \* results waiting for the consumer
    rw_pc,            \* reader's worker: "off" | "idle" | "holding" | "stopped"
    rw_item,          \* the result the worker holds while it waits to put it
    finished_event,   \* the reader's finished signal
    n_finished,       \* how many times the reader's notify_finished ran
    load_errors,      \* tiles whose load raised in the worker
    yielded,          \* what the consumer received, in order
    \* ---- background writer ----
    wr_pc,            \* caller: "new" | "open" | "finishing" | "returned" | "raised"
    debug,            \* Writer(debug=...)
    max_queue,        \* Writer(max_queue=...)
    exists,           \* the files that were created before the writer started
    files,            \* file name -> content, a matrix of samples
    write_queue,      \* write requests waiting for the worker
    ww_pc,            \* writer's worker: "off" | "idle" | "writing" | "stopped"
    ww_item,          \* the request the worker is writing
    w_finished_event, \* the writer's finished signal
    submitted,        \* every request handed to queue_write, in order
    applied,          \* the requests written into their file, in order
    write_errors,     \* the requests whose write raised
    \* ---- sequential ministack workflow ----
    s_pc,             \* "idle" | "start" | "loop" | "in_single" | "returned" | "raised"
    file_list_all,    \* v_all.file_list: the raw files, in time order
    ministack_size,   \* the argument ministack_size
    ministack_starts, \* range(0, len(file_list_all), ministack_size)
    mini_idx,         \* position of the loop in ministack_starts (0-based)
    cur_files,        \* the list handed to the current run_wrapped_phase_single
    comp_slc_files,   \* the compressed SLCs so far, in batch order
    tcorr_files,      \* the temporal coherence files so far, in batch order
    output_slc_files, \* mini_idx -> cur_output_files, in batch order
    single_calls,     \* every file list handed to run_wrapped_phase_single
    s_error,          \* the exception the run ended with, or NoneVal
    made_dirs,        \* the per-batch folders created (start_end pairs)
    work_files,       \* the files lying in per-batch folders
    top_files,        \* the files lying in output_folder itself
    tcorr_data,       \* the content of each tcorr file, in batch order
    tcorr_nodata,     \* the nodata value the tcorr files declare, or NoNodata
    output_tcorr,     \* the content of output_folder/tcorr_average.tif
    tcorr_averaged,   \* whether gdal_calc.Calc ran
    pl_outputs,       \* returned list of per-epoch outputs
    comp_outputs,     \* returned list of compressed SLCs
    \* ---- calc_ps_block ----
    ps_pc,            \* "idle" | "input" | "done"
    stack_mag,        \* the block: [layer -> [pixel -> sample]]
    amp_dispersion_threshold, \* <<num, den>>
    min_count_arg,    \* the argument min_count: NoCount or <<n>>
    ps_mean,          \* returned mean, per pixel
    ps_amp_disp,      \* returned amp_disp, per pixel
    ps_ps,            \* returned ps, per pixel
    \* ---- unwrap.run ----
    u_pc,             \* "idle" | "start" | "filter" | "submit" | "returned" | "raised"
    ifg_filenames,    \* the interferograms, in the caller's order
    cor_filenames,    \* the correlation files, in the caller's order
    out_exists,       \* the output files that exist
    overwrite,        \* the argument overwrite
    u_k,              \* how many interferograms the filtering loop has seen
    in_files,         \* the interferograms left to unwrap
    out_files,        \* their outputs
    futures,          \* the arguments of every unwrap submitted, in order
    job_state,        \* per future: "queued" | "started" | "write_unw"
                      \* | "write_conncomp" | "unwrapping" | "coarse"
                      \* | "coarse_write_unw" | "coarse_write_conncomp"
                      \* | "coarse_return" | "done" | "failed"
    odd_cor,          \* the correlation files shaped unlike the interferograms
    max_jobs,         \* the argument max_jobs
    downsample_factor, \* the argument downsample_factor
    unw_paths,        \* the returned list of unwrapped files
    \* ---- create_ps ----
    cp_pc,            \* "idle" | "start" | "queueing" | "blocks" | "queue_write"
                      \* | "finishing" | "done" | "raised"
    slc_stack,        \* the SLC stack: [row -> [layer -> sample]], one column
    cp_block_shape,   \* the argument block_shape
    cp_nodata_mask,   \* the argument nodata_mask: NoMask or [row -> BOOLEAN]
    cp_file_nodata,   \* the nodata value of slc_vrt_file, or NoneVal
    cp_threshold,     \* the argument amp_dispersion_threshold
    use_existing,     \* existing files are given and update_existing is not
    existing_disp,    \* the existing amplitude dispersion file, per row
    existing_mean,    \* the existing amplitude mean file, per row
    existing_nodata,  \* the nodata value of the existing dispersion file
    cp_skip_empty,    \* skip_empty as create_ps passes it on
    cp_slices,        \* the tiles of the loader
    cp_next,          \* position of the loader's queueing loop
    cp_queued,        \* the tiles whose read was queued
    cp_got,           \* how many results the loader has retrieved
    cp_computed,      \* the tiles calc_ps_block was called for
    cp_filled,        \* the tiles filled with nodata
    cp_blocks,        \* the blocks of the tile at hand that are yet to be queued
    cp_writes,        \* every queue_write call, in order
    cp_pending,       \* the queued writes the Writer has not applied yet
    out_ps,           \* output_file, per row
    out_amp_disp,     \* output_amp_dispersion_file, per row
    out_amp_mean      \* output_amp_mean_file, per row

plannerVars == <<p_pc, raw_chunk, shape, nstack, bytes_per_pixel, max_bytes,
                 file_chunk_size, chunks_per_block, num_chunks,
                 cur_block_shape, idx>>
readerVars == <<r_pc, arr_shape, block_shape, overlaps, skip_empty, nodata_mask,
                file_nodata, nodata, raster, queue_size, slices, next_slice,
                queued_slices, n_got, work_queue, results_queue, rw_pc, rw_item,
                finished_event, n_finished, load_errors, yielded>>
writerVars == <<wr_pc, debug, max_queue, exists, files, write_queue, ww_pc,
                ww_item, w_finished_event, submitted, applied, write_errors>>
seqVars == <<s_pc, file_list_all, ministack_size, ministack_starts, mini_idx,
             cur_files, comp_slc_files, tcorr_files, output_slc_files,
             single_calls, s_error, made_dirs, work_files, top_files,
             tcorr_data, tcorr_nodata, output_tcorr, tcorr_averaged, pl_outputs,
             comp_outputs>>
psVars == <<ps_pc, stack_mag, amp_dispersion_threshold, min_count_arg,
            ps_mean, ps_amp_disp, ps_ps>>
unwrapVars == <<u_pc, ifg_filenames, cor_filenames, odd_cor, out_exists,
                overwrite, max_jobs, downsample_factor, u_k, in_files,
                out_files, futures, job_state, unw_paths>>
cpIn == <<slc_stack, cp_block_shape, cp_nodata_mask, cp_file_nodata,
          cp_threshold, use_existing, existing_disp, existing_mean,
          existing_nodata>>
cpLoader == <<cp_skip_empty, cp_slices, cp_next, cp_queued, cp_got>>
cpOut == <<cp_computed, cp_filled, cp_blocks, cp_writes, cp_pending, out_ps,
           out_amp_disp, out_amp_mean>>
createPsVars == <<cp_pc, cpIn, cpLoader, cpOut>>
vars == <<plannerVars, readerVars, writerVars, seqVars, psVars, unwrapVars,
          createPsVars>>

\* What the actions of one component leave alone.
notPlanner == <<readerVars, writerVars, seqVars, psVars, unwrapVars,
    createPsVars>>
notReader == <<plannerVars, writerVars, seqVars, psVars, unwrapVars,
    createPsVars>>
notWriter == <<plannerVars, readerVars, seqVars, psVars, unwrapVars,
    createPsVars>>
notSeq == <<plannerVars, readerVars, writerVars, psVars, unwrapVars,
    createPsVars>>
notPs == <<plannerVars, readerVars, writerVars, seqVars, unwrapVars,
    createPsVars>>
notUnwrap == <<plannerVars, readerVars, writerVars, seqVars, psVars,
    createPsVars>>
notCreatePs == <<plannerVars, readerVars, writerVars, seqVars, psVars,
    unwrapVars>>

NoneVal == "None"
\* nodata_mask=None
NoMask == <<>>
\* the content of a path at which no file exists
NoFile == <<>>
\* A raster without a nodata value.
NoNodata == <<>>

Min(a, b) == IF a <= b THEN a ELSE b
Max(a, b) == IF a >= b THEN a ELSE b

(***************************************************************************)
(*                            BLOCK PLANNER                                *)
(***************************************************************************)

\* "If it's written by line, load at least 16 lines at a time"
MinChunkLines == 16

\* Bounds of the planner's inputs.
MaxDim == 40
MaxChunk == 64
MaxStack == 3
MaxBudget == 30000

PlannerDims == {1, 9, MinChunkLines, MinChunkLines + 1, 2 * MinChunkLines + 1, MaxDim}
PlannerChunks == {1, 8, MinChunkLines, 20, MaxChunk}
PlannerStacks == {1, MaxStack}
PlannerItemSizes == {1, 8}
PlannerBudgets ==
    {100, MinChunkLines * MinChunkLines, 300, 1000, 3000, 10000, MaxBudget}

\* max_bytes / (nstack * rows * cols * bytes_per_pixel), as numerator and
\* denominator: the code only ever compares the quotient with 1.
ChunksPerBlock(mb, ns, blk, bpp) == <<mb, ns * blk[1] * blk[2] * bpp>>
GreaterThanOne(q) == q[1] > q[2]

\* The memory the planner estimates for a block.
BlockBytes(blk, ns, bpp) == blk[1] * blk[2] * ns * bpp

ClampChunkUnclipped(chunk, size) == Max(MinChunkLines, chunk)
\* chunk = min(max(16, chunk), size)
ClampChunk(chunk, size) == Min(Max(MinChunkLines, chunk), size)

PlannerIdle ==
    /\ p_pc = "idle"
    /\ raw_chunk = <<1, 1>>
    /\ shape = <<1, 1>>
    /\ nstack = 1
    /\ bytes_per_pixel = 1
    /\ max_bytes = 1
    /\ file_chunk_size = <<1, 1>>
    /\ chunks_per_block = <<1, 1>>
    /\ num_chunks = <<1, 1>>
    /\ cur_block_shape = <<1, 1>>
    /\ idx = 1

PlannerInit ==
    /\ p_pc = "start"
    /\ raw_chunk \in PlannerChunks \X PlannerChunks
    /\ shape \in PlannerDims \X PlannerDims
    /\ nstack \in PlannerStacks
    /\ bytes_per_pixel \in PlannerItemSizes
    /\ max_bytes \in PlannerBudgets
    /\ file_chunk_size = <<1, 1>>
    /\ chunks_per_block = <<1, 1>>
    /\ num_chunks = <<1, 1>>
    /\ cur_block_shape = <<1, 1>>
    /\ idx = 1

\* get_max_block_shape up to its call of _increment_until_max, and that
\* function up to the head of its loop.
GetMaxBlockShape ==
    /\ p_pc = "start"
    /\ LET chunk_rows == ClampChunk(raw_chunk[1], shape[1])
           chunk_cols == ClampChunk(raw_chunk[2], shape[2])
       IN /\ file_chunk_size' = <<chunk_rows, chunk_cols>>
          /\ chunks_per_block' =
                 ChunksPerBlock(max_bytes, nstack, <<chunk_rows, chunk_cols>>,
                                bytes_per_pixel)
          /\ cur_block_shape' = <<chunk_rows, chunk_cols>>
    /\ num_chunks' = <<1, 1>>
    /\ idx' = 1
    /\ p_pc' = "loop"
    /\ UNCHANGED <<raw_chunk, shape, nstack, bytes_per_pixel, max_bytes>>
    /\ UNCHANGED notPlanner

LoopGuardAtLeastOne(q, blk, shp) == q[1] >= q[2] /\ blk # shp
LoopGuardBudgetOnly(q, blk, shp) == GreaterThanOne(q)
\* while chunks_per_block > 1 and tuple(cur_block_shape) != tuple(shape)
LoopGuard(q, blk, shp) == GreaterThanOne(q) /\ blk # shp

\* chunk_idx = idx % 2 picks the axis: 1 is cols, 0 is rows; tuples here are
\* 1-based, so axis a is position a + 1.
IncrementStep ==
    /\ p_pc = "loop"
    /\ LoopGuard(chunks_per_block, cur_block_shape, shape)
    /\ LET chunk_idx == (idx % 2) + 1
           nc == num_chunks[chunk_idx]
           chunk_size == file_chunk_size[chunk_idx]
           grown == [cur_block_shape EXCEPT
                         ![chunk_idx] = Min(nc * chunk_size, shape[chunk_idx])]
       IN /\ cur_block_shape' = grown
          /\ chunks_per_block' =
                 ChunksPerBlock(max_bytes, nstack, grown, bytes_per_pixel)
          /\ num_chunks' = [num_chunks EXCEPT ![chunk_idx] = nc + 1]
    /\ idx' = idx + 1
    /\ UNCHANGED <<p_pc, raw_chunk, shape, nstack, bytes_per_pixel, max_bytes,
                   file_chunk_size>>
    /\ UNCHANGED notPlanner

\* return cur_block_shape[0], cur_block_shape[1]
IncrementReturn ==
    /\ p_pc = "loop"
    /\ ~LoopGuard(chunks_per_block, cur_block_shape, shape)
    /\ p_pc' = "done"
    /\ UNCHANGED <<raw_chunk, shape, nstack, bytes_per_pixel, max_bytes,
                   file_chunk_size, chunks_per_block, num_chunks,
                   cur_block_shape, idx>>
    /\ UNCHANGED notPlanner

PlannerNext == GetMaxBlockShape \/ IncrementStep \/ IncrementReturn

(***************************************************************************)
(*                             BLOCK INDEXER                               *)
(* iter_blocks lives in dolphin._blocks; it is modelled from its           *)
(* specification: the raster is tiled by block_shape in row-major order,   *)
(* each tile is inflated by the overlap at its interior borders and        *)
(* clipped at the raster edges.  A tile is a pair of half-open 0-based     *)
(* ranges, as Python slices are.                                           *)
(***************************************************************************)

\* Bounds of the indexer's inputs.
MaxIdxDim == 5
MaxIdxBlock == 3
MaxOverlap == 2

\* ceil(n / b)
AxisBlocks(n, b) == (n + b - 1) \div b
NominalRange(k, n, b) == <<(k - 1) * b, Min(k * b, n)>>
PaddedRange(k, n, b, ov) == <<Max((k - 1) * b - ov, 0), Min(k * b + ov, n)>>

\* Position of the i-th tile (1-based, row-major) on each axis.
TileRowIdx(i, shp, blk) == ((i - 1) \div AxisBlocks(shp[2], blk[2])) + 1
TileColIdx(i, shp, blk) == ((i - 1) % AxisBlocks(shp[2], blk[2])) + 1

iter_blocks(shp, blk, ov) ==
    [i \in 1..(AxisBlocks(shp[1], blk[1]) * AxisBlocks(shp[2], blk[2])) |->
        [rows |-> PaddedRange(TileRowIdx(i, shp, blk), shp[1], blk[1], ov[1]),
         cols |-> PaddedRange(TileColIdx(i, shp, blk), shp[2], blk[2], ov[2])]]

\* The overlap a tile carries on one axis is what the inflation added there:
\* nothing at a raster edge, and never more than the room left to the edge.
RemoveOverlapAxis(rng, k, n, b, ov) ==
    <<rng[1] + (IF k = 1 THEN 0 ELSE Min(ov, (k - 1) * b)),
      rng[2] - (IF k = AxisBlocks(n, b) THEN 0 ELSE Min(ov, n - k * b))>>

RemoveOverlap(tile, i, shp, blk, ov) ==
    [rows |-> RemoveOverlapAxis(tile.rows, TileRowIdx(i, shp, blk),
                                shp[1], blk[1], ov[1]),
     cols |-> RemoveOverlapAxis(tile.cols, TileColIdx(i, shp, blk),
                                shp[2], blk[2], ov[2])]

\* get_raster_xysize(filename) returns (xsize, ysize).
get_raster_xysize == <<arr_shape[2], arr_shape[1]>>

EagerLoaderSlicesSwapped(xysize, blk, ov) ==
    iter_blocks(<<xysize[1], xysize[2]>>, blk, ov)
\* xsize, ysize = get_raster_xysize(filename)
\* self.slices = list(iter_blocks(arr_shape=(ysize, xsize), ...))
EagerLoaderSlices(xysize, blk, ov) ==
    iter_blocks(<<xysize[2], xysize[1]>>, blk, ov)

(***************************************************************************)
(*                           BACKGROUND READER                             *)
(* The worker thread and its queues live in dolphin._background; they are  *)
(* modelled from their specification: one worker per reader takes read     *)
(* requests in order, loads each tile and puts the result into a queue of  *)
(* depth queue_size; an exception raised by a load is captured as the      *)
(* result and re-raised by get_data.  A queue built with size 0 is, as     *)
(* Python's queue.Queue is, unbounded.                                     *)
(***************************************************************************)

\* Bounds of the reader's inputs.
MaxReaderRows == 3
MaxReaderCols == 1
MaxReaderBlock == 2
MaxReaderOverlap == 1
MaxQueueSize == 2

\* Samples of the raster: NaN, the value 0 and the value 1.
Samples == {"nan", "0", "1"}
IsNan(x) == x = "nan"
\* IEEE equality, as numpy's ==: NaN equals nothing.
FloatEq(a, b) == ~IsNan(a) /\ ~IsNan(b) /\ a = b

RowsOf(tile) == (tile.rows[1] + 1)..tile.rows[2]
ColsOf(tile) == (tile.cols[1] + 1)..tile.cols[2]

\* self._nodata_mask[rows, cols].all()
MaskAll(mask, tile) == \A r \in RowsOf(tile) : mask[r]

\* What load_gdal gives for a window it refuses.
IndexError == <<"IndexError">>

\* if xsize <= 0 or ysize <= 0: raise IndexError, with the stops clipped to
\* the raster (row_stop = min(rows.stop, nrows))
InvalidWindow(tile) ==
    \/ Min(tile.cols[2], arr_shape[2]) - tile.cols[1] <= 0
    \/ Min(tile.rows[2], arr_shape[1]) - tile.rows[1] <= 0

\* load_gdal(filename, rows=rows, cols=cols): the samples of the region,
\* its stops clipped to the raster; IndexError for a window that is empty
\* after the clipping.
load_gdal(tile) ==
    IF InvalidWindow(tile) THEN IndexError
    ELSE [i \in 1..(Min(tile.rows[2], arr_shape[1]) - tile.rows[1]) |->
             [j \in 1..(Min(tile.cols[2], arr_shape[2]) - tile.cols[1]) |->
                 raster[tile.rows[1] + i]]]

WholeRaster == [rows |-> <<0, arr_shape[1]>>, cols |-> <<0, arr_shape[2]>>]

ErrorResult(tile) == [kind |-> "error", block |-> <<>>, loc |-> tile]

ReadWholeFile(tile, ok) ==
    IF ok THEN [kind |-> "ok", block |-> load_gdal(WholeRaster), loc |-> tile]
          ELSE ErrorResult(tile)
ReadSwallowsError(tile, ok) ==
    [kind |-> "ok", block |-> load_gdal(tile), loc |-> tile]
\* EagerLoader.read: cur_block = load_gdal(...); return cur_block, (rows, cols).
\* ok is whether GDAL reads the file; load_gdal raises when it does not, and
\* for a window it refuses.
Read(tile, ok) ==
    IF ok /\ ~InvalidWindow(tile)
    THEN [kind |-> "ok", block |-> load_gdal(tile), loc |-> tile]
    ELSE ErrorResult(tile)

\* if np.isnan(self._nodata): block_nodata = np.isnan(cur_block)
\* else: block_nodata = cur_block == self._nodata;  np.all(block_nodata)
BlockAllNodata(block, nd) ==
    \A i \in DOMAIN block : \A j \in DOMAIN block[i] :
        IF IsNan(nd) THEN IsNan(block[i][j]) ELSE FloatEq(block[i][j], nd)

\* Room in a queue built with maxsize nq.
HasRoom(q, nq) == nq <= 0 \/ Len(q) < nq

ReaderIdle ==
    /\ r_pc = "idle"
    /\ arr_shape = <<1, 1>>
    /\ block_shape = <<1, 1>>
    /\ overlaps = <<0, 0>>
    /\ skip_empty = TRUE
    /\ nodata_mask = NoMask
    /\ file_nodata = NoneVal
    /\ nodata = NoneVal
    /\ raster = [r \in 1..1 |-> "1"]
    /\ queue_size = 1
    /\ slices = <<>>
    /\ next_slice = 1
    /\ queued_slices = <<>>
    /\ n_got = 0
    /\ work_queue = <<>>
    /\ results_queue = <<>>
    /\ rw_pc = "off"
    /\ rw_item = NoneVal
    /\ finished_event = FALSE
    /\ n_finished = 0
    /\ load_errors = {}
    /\ yielded = <<>>

ReaderFresh ==
    /\ r_pc = "new"
    /\ nodata = NoneVal
    /\ slices = <<>>
    /\ next_slice = 1
    /\ queued_slices = <<>>
    /\ n_got = 0
    /\ work_queue = <<>>
    /\ results_queue = <<>>
    /\ rw_pc = "off"
    /\ rw_item = NoneVal
    /\ finished_event = FALSE
    /\ n_finished = 0
    /\ load_errors = {}
    /\ yielded = <<>>

\* The indexer alone: many shapes, one content.
IndexerInit ==
    /\ ReaderFresh
    /\ arr_shape \in (1..MaxIdxDim) \X (1..MaxIdxDim)
    /\ block_shape \in (1..MaxIdxBlock) \X (1..MaxIdxBlock)
    /\ overlaps \in (0..MaxOverlap) \X (0..MaxOverlap)
    /\ skip_empty = TRUE
    /\ nodata_mask = NoMask
    /\ file_nodata = NoneVal
    /\ raster = [r \in 1..arr_shape[1] |-> "1"]
    /\ queue_size = 1

\* The reader: small rasters whose rows each hold one sample value and one
\* mask value, every content, mask and nodata setting.  The mask is only
\* looked at when skip_empty is set, so one mask stands for all otherwise.
ReaderInit ==
    /\ ReaderFresh
    /\ arr_shape \in (1..MaxReaderRows) \X {MaxReaderCols}
    /\ block_shape \in (1..MaxReaderBlock) \X {MaxReaderCols}
    /\ overlaps \in {0, MaxReaderOverlap} \X {0}
    /\ overlaps[1] < block_shape[1]
    /\ skip_empty \in BOOLEAN
    /\ nodata_mask \in {NoMask} \cup [1..arr_shape[1] -> BOOLEAN]
    /\ (~skip_empty /\ nodata_mask # NoMask) =>
           nodata_mask = [r \in 1..arr_shape[1] |-> TRUE]
    /\ file_nodata \in {NoneVal, "nan", "0"}
    /\ raster \in [1..arr_shape[1] -> Samples]
    /\ queue_size \in 1..MaxQueueSize

\* EagerLoader.__init__: starts the worker, lists the tiles, reads the nodata.
EagerLoaderInit ==
    /\ r_pc = "new"
    /\ slices' = EagerLoaderSlices(get_raster_xysize, block_shape, overlaps)
    /\ nodata' = IF file_nodata = NoneVal THEN "nan" ELSE file_nodata
    /\ rw_pc' = "idle"
    /\ r_pc' = "queueing"
    /\ UNCHANGED <<arr_shape, block_shape, overlaps, skip_empty, nodata_mask,
                   file_nodata, raster, queue_size, next_slice, queued_slices,
                   n_got, work_queue, results_queue, rw_item, finished_event,
                   n_finished, load_errors, yielded>>
    /\ UNCHANGED notReader

\* if self._skip_empty and self._nodata_mask is not None:
\*     if self._nodata_mask[rows, cols].all(): continue
SkipsRead(tile) ==
    skip_empty /\ nodata_mask # NoMask /\ MaskAll(nodata_mask, tile)

\* One iteration of "for rows, cols in self.slices" of iter_blocks.
QueueStep ==
    /\ r_pc = "queueing"
    /\ next_slice <= Len(slices)
    /\ LET tile == slices[next_slice]
       IN IF SkipsRead(tile)
          THEN UNCHANGED <<work_queue, queued_slices>>
          ELSE /\ work_queue' = Append(work_queue, tile)
               /\ queued_slices' = Append(queued_slices, tile)
    /\ next_slice' = next_slice + 1
    /\ r_pc' = IF next_slice = Len(slices) THEN "getting" ELSE "queueing"
    /\ UNCHANGED <<arr_shape, block_shape, overlaps, skip_empty, nodata_mask,
                   file_nodata, nodata, raster, queue_size, slices, n_got,
                   results_queue, rw_pc, rw_item, finished_event, n_finished,
                   load_errors, yielded>>
    /\ UNCHANGED notReader

\* The worker takes the next request and loads it.
WorkerRead ==
    /\ rw_pc = "idle"
    /\ ~finished_event
    /\ work_queue # <<>>
    /\ \E ok \in BOOLEAN :
         /\ rw_item' = Read(Head(work_queue), ok)
         /\ load_errors' = IF ok THEN load_errors
                                 ELSE load_errors \cup {Head(work_queue)}
    /\ work_queue' = Tail(work_queue)
    /\ rw_pc' = "holding"
    /\ UNCHANGED <<r_pc, arr_shape, block_shape, overlaps, skip_empty,
                   nodata_mask, file_nodata, nodata, raster, queue_size, slices,
                   next_slice, queued_slices, n_got, results_queue,
                   finished_event, n_finished, yielded>>
    /\ UNCHANGED notReader

\* The worker puts its result; it waits while the queue is full.
WorkerPut ==
    /\ rw_pc = "holding"
    /\ HasRoom(results_queue, queue_size)
    /\ results_queue' = Append(results_queue, rw_item)
    /\ rw_item' = NoneVal
    /\ rw_pc' = "idle"
    /\ UNCHANGED <<r_pc, arr_shape, block_shape, overlaps, skip_empty,
                   nodata_mask, file_nodata, nodata, raster, queue_size, slices,
                   next_slice, queued_slices, n_got, work_queue, finished_event,
                   n_finished, load_errors, yielded>>
    /\ UNCHANGED notReader

\* The worker ends once the finished signal is set.
WorkerStop ==
    /\ rw_pc = "idle"
    /\ finished_event
    /\ rw_pc' = "stopped"
    /\ UNCHANGED <<r_pc, arr_shape, block_shape, overlaps, skip_empty,
                   nodata_mask, file_nodata, nodata, raster, queue_size, slices,
                   next_slice, queued_slices, n_got, work_queue, results_queue,
                   rw_item, finished_event, n_finished, load_errors, yielded>>
    /\ UNCHANGED notReader

\* One iteration of the retrieval loop: get_data, the nodata test, the yield.
RetrievalLoopEndedEarly(got, queued) == got + 1 >= Len(queued)
\* for _ in range(len(queued_slices)): one get_data() per queued read
RetrievalLoopEnded(got, queued) == got = Len(queued)

GetData ==
    /\ r_pc = "getting"
    /\ ~RetrievalLoopEnded(n_got, queued_slices)
    /\ results_queue # <<>>
    /\ LET res == Head(results_queue)
       IN /\ results_queue' = Tail(results_queue)
          /\ n_got' = n_got + 1
          /\ IF res.kind = "error"
             THEN r_pc' = "raised" /\ UNCHANGED yielded
             ELSE IF BlockAllNodata(res.block, nodata)
                  THEN UNCHANGED <<r_pc, yielded>>
                  ELSE /\ yielded' = Append(yielded, [block |-> res.block,
                                                      loc |-> res.loc])
                       /\ r_pc' = "yielded"
    /\ UNCHANGED <<arr_shape, block_shape, overlaps, skip_empty, nodata_mask,
                   file_nodata, nodata, raster, queue_size, slices, next_slice,
                   queued_slices, work_queue, rw_pc, rw_item, finished_event,
                   n_finished, load_errors>>
    /\ UNCHANGED notReader

\* The consumer asks the generator for the next tile.
ConsumerResume ==
    /\ r_pc = "yielded"
    /\ r_pc' = "getting"
    /\ UNCHANGED <<arr_shape, block_shape, overlaps, skip_empty, nodata_mask,
                   file_nodata, nodata, raster, queue_size, slices, next_slice,
                   queued_slices, n_got, work_queue, results_queue, rw_pc,
                   rw_item, finished_event, n_finished, load_errors, yielded>>
    /\ UNCHANGED notReader

\* The consumer stops iterating: the generator is closed at its yield, and
\* nothing after the yield runs.
ConsumerAbandon ==
    /\ r_pc = "yielded"
    /\ r_pc' = "abandoned"
    /\ UNCHANGED <<arr_shape, block_shape, overlaps, skip_empty, nodata_mask,
                   file_nodata, nodata, raster, queue_size, slices, next_slice,
                   queued_slices, n_got, work_queue, results_queue, rw_pc,
                   rw_item, finished_event, n_finished, load_errors, yielded>>
    /\ UNCHANGED notReader

\* self.notify_finished() after the retrieval loop: sets the signal ...
NotifyFinished ==
    /\ r_pc = "getting"
    /\ RetrievalLoopEnded(n_got, queued_slices)
    /\ finished_event' = TRUE
    /\ n_finished' = n_finished + 1
    /\ r_pc' = "finishing"
    /\ UNCHANGED <<arr_shape, block_shape, overlaps, skip_empty, nodata_mask,
                   file_nodata, nodata, raster, queue_size, slices, next_slice,
                   queued_slices, n_got, work_queue, results_queue, rw_pc,
                   rw_item, load_errors, yielded>>
    /\ UNCHANGED notReader

\* ... and returns once the worker has ended.
NotifyFinishedReturn ==
    /\ r_pc = "finishing"
    /\ rw_pc = "stopped"
    /\ r_pc' = "done"
    /\ UNCHANGED <<arr_shape, block_shape, overlaps, skip_empty, nodata_mask,
                   file_nodata, nodata, raster, queue_size, slices, next_slice,
                   queued_slices, n_got, work_queue, results_queue, rw_pc,
                   rw_item, finished_event, n_finished, load_errors, yielded>>
    /\ UNCHANGED notReader

ReaderNext ==
    \/ EagerLoaderInit
    \/ QueueStep
    \/ WorkerRead
    \/ WorkerPut
    \/ WorkerStop
    \/ GetData
    \/ ConsumerResume
    \/ ConsumerAbandon
    \/ NotifyFinished
    \/ NotifyFinishedReturn

(***************************************************************************)
(*                           BACKGROUND WRITER                             *)
(* io.Writer and io.write_block are modelled from the source.  The worker  *)
(* thread, its queue and notify_finished live in dolphin._background and   *)
(* are modelled from their specification: queue_write puts a request into  *)
(* a queue of depth max_queue, one worker writes the requests in order,    *)
(* and notify_finished returns once the queue is drained and the last      *)
(* write has ended.                                                        *)
(***************************************************************************)

\* Bounds of the writer's inputs.
MaxWrites == 3
MaxWriteQueue == 2
FileRows == 2
FileCols == 2
TileRows == 1
TileCols == 1

FileNames == {"f1", "f2"}

\* A block of h rows and w columns, every sample equal to v.
ConstBlock(h, w, v) == [i \in 1..h |-> [j \in 1..w |-> v]]

\* The requests a caller may make: one row or the whole height of the file,
\* spanning its width, at any row offset (so some lie outside the file), to
\* either file.  The k-th request of a run carries the sample value k, so
\* that the content of a file tells which request wrote it.
WriteRequests(k) ==
    { [data |-> ConstBlock(h, FileCols, k), filename |-> f,
       row_start |-> r, col_start |-> c] :
        h \in {1, FileRows}, f \in FileNames, r \in 0..(FileRows - 1), c \in {0} }

\* A pixel of a file that write_arr(arr=None, nodata=nd) has created: no
\* block is written and the nodata value is set before the file is closed,
\* and GDAL gives the nodata value for a block that was never written.
CreatedPixel(nd) == nd

\* A file created with the nodata value 0, as the amplitude files are.
EmptyFile == ConstBlock(FileRows, FileCols, CreatedPixel(0))

InBounds(req) ==
    /\ req.row_start >= 0
    /\ req.col_start >= 0
    /\ req.row_start + Len(req.data) <= FileRows
    /\ req.col_start + Len(req.data[1]) <= FileCols

\* A write_block that takes a block as large as the raster for a request to
\* create the file.
WriteRaisesUnlessWhole(ex, req) ==
    \/ ~InBounds(req)
    \/ req.filename \notin ex /\ Len(req.data) < FileRows

\* write_block raises when the file does not exist (ValueError) or when
\* GDAL rejects a window outside the raster.
WriteRaises(ex, req) == req.filename \notin ex \/ ~InBounds(req)

\* A write that ignores the offsets and always starts at the origin.
WriteBlockAtOrigin(fs, req) ==
    [fs EXCEPT ![req.filename] =
        [i \in 1..FileRows |-> [j \in 1..FileCols |->
            IF i <= Len(req.data) /\ j <= Len(req.data[1])
            THEN req.data[i][j]
            ELSE fs[req.filename][i][j]]]]

\* _write_gdal: bnd.WriteArray(cur_image, col_start, row_start)
write_block(fs, req) ==
    [fs EXCEPT ![req.filename] =
        [i \in 1..FileRows |-> [j \in 1..FileCols |->
            IF /\ i > req.row_start /\ i <= req.row_start + Len(req.data)
               /\ j > req.col_start /\ j <= req.col_start + Len(req.data[1])
            THEN req.data[i - req.row_start][j - req.col_start]
            ELSE fs[req.filename][i][j]]]]

WriterWriteSwapped(fs, req) ==
    write_block(fs, [req EXCEPT !.row_start = req.col_start,
                                !.col_start = req.row_start])
\* Writer.write: write_block(data, filename, row_start, col_start)
WriterWrite(fs, req) == write_block(fs, req)

\* The content the files have once the requests in reqs were written in order.
RECURSIVE ApplyAll(_, _, _)
ApplyAll(fs, ex, reqs) ==
    IF reqs = <<>> THEN fs
    ELSE ApplyAll(IF WriteRaises(ex, Head(reqs)) THEN fs
                  ELSE write_block(fs, Head(reqs)), ex, Tail(reqs))

WriterIdle ==
    /\ wr_pc = "idle"
    /\ debug = FALSE
    /\ max_queue = 0
    /\ exists = {}
    /\ files = [f \in FileNames |-> NoFile]
    /\ write_queue = <<>>
    /\ ww_pc = "off"
    /\ ww_item = NoneVal
    /\ w_finished_event = FALSE
    /\ submitted = <<>>
    /\ applied = <<>>
    /\ write_errors = <<>>

\* max_queue = 0 is the default of Writer.__init__, and what create_ps uses.
WriterInit ==
    /\ wr_pc = "new"
    /\ debug \in BOOLEAN
    /\ max_queue \in 0..MaxWriteQueue
    /\ exists \in {{"f1"}, {"f1", "f2"}}
    /\ files = [f \in FileNames |-> IF f \in exists THEN EmptyFile ELSE NoFile]
    /\ write_queue = <<>>
    /\ ww_pc = "off"
    /\ ww_item = NoneVal
    /\ w_finished_event = FALSE
    /\ submitted = <<>>
    /\ applied = <<>>
    /\ write_errors = <<>>

\* Writer.__init__: starts the worker unless debug is set.
WriterNew ==
    /\ wr_pc = "new"
    /\ wr_pc' = "open"
    /\ ww_pc' = IF debug THEN "off" ELSE "idle"
    /\ UNCHANGED <<debug, max_queue, exists, files, write_queue, ww_item,
                   w_finished_event, submitted, applied, write_errors>>
    /\ UNCHANGED notWriter

\* writer.queue_write(data, filename, row_start, col_start).  With debug
\* set it is write_block itself, run by the caller; otherwise the request
\* is put into the queue, and the caller waits while the queue is full.
queue_write(req) ==
    /\ wr_pc = "open"
    /\ submitted' = Append(submitted, req)
    /\ IF debug
       THEN IF WriteRaises(exists, req)
            THEN /\ wr_pc' = "raised"
                 /\ write_errors' = Append(write_errors, req)
                 /\ UNCHANGED <<files, applied, write_queue>>
            ELSE /\ files' = write_block(files, req)
                 /\ applied' = Append(applied, req)
                 /\ UNCHANGED <<wr_pc, write_errors, write_queue>>
       ELSE /\ HasRoom(write_queue, max_queue)
            /\ write_queue' = Append(write_queue, req)
            /\ UNCHANGED <<wr_pc, files, applied, write_errors>>
    /\ UNCHANGED <<debug, max_queue, exists, ww_pc, ww_item, w_finished_event>>
    /\ UNCHANGED notWriter

\* A caller queueing any request, up to MaxWrites of them.
QueueWrite ==
    /\ Len(submitted) < MaxWrites
    /\ \E req \in WriteRequests(Len(submitted) + 1) : queue_write(req)

\* A caller writing one array tile by tile: the array is cut into tiles of
\* TileRows x TileCols (the last ones smaller), and each tile is queued once,
\* at its own offset, in any order.
Picture == [i \in 1..FileRows |-> [j \in 1..FileCols |-> (i - 1) * FileCols + j]]

PictureTiles == iter_blocks(<<FileRows, FileCols>>, <<TileRows, TileCols>>, <<0, 0>>)

TileRequest(tile) ==
    [data |-> [i \in 1..(tile.rows[2] - tile.rows[1]) |->
                 [j \in 1..(tile.cols[2] - tile.cols[1]) |->
                     Picture[tile.rows[1] + i][tile.cols[1] + j]]],
     filename |-> "f1", row_start |-> tile.rows[1], col_start |-> tile.cols[1]]

\* write_block(arr, filename, 0, 0): the whole array in one direct call.
WholeRequest ==
    [data |-> Picture, filename |-> "f1", row_start |-> 0, col_start |-> 0]

QueueTile ==
    \E i \in DOMAIN PictureTiles :
        /\ \A k \in DOMAIN submitted : submitted[k] # TileRequest(PictureTiles[i])
        /\ queue_write(TileRequest(PictureTiles[i]))

\* The worker takes the next request ...
WriterTake ==
    /\ ww_pc = "idle"
    /\ write_queue # <<>>
    /\ ww_item' = Head(write_queue)
    /\ write_queue' = Tail(write_queue)
    /\ ww_pc' = "writing"
    /\ UNCHANGED <<wr_pc, debug, max_queue, exists, files, w_finished_event,
                   submitted, applied, write_errors>>
    /\ UNCHANGED notWriter

\* ... and writes it (Writer.write); an exception is captured, not raised.
WriterProcess ==
    /\ ww_pc = "writing"
    /\ IF WriteRaises(exists, ww_item)
       THEN /\ write_errors' = Append(write_errors, ww_item)
            /\ UNCHANGED <<files, applied>>
       ELSE /\ files' = WriterWrite(files, ww_item)
            /\ applied' = Append(applied, ww_item)
            /\ UNCHANGED write_errors
    /\ ww_item' = NoneVal
    /\ ww_pc' = "idle"
    /\ UNCHANGED <<wr_pc, debug, max_queue, exists, write_queue,
                   w_finished_event, submitted>>
    /\ UNCHANGED notWriter

\* The worker ends once the finished signal is set and the queue is drained.
WorkerMayStop == w_finished_event /\ write_queue = <<>>

WriterStop ==
    /\ ww_pc = "idle"
    /\ WorkerMayStop
    /\ ww_pc' = "stopped"
    /\ UNCHANGED <<wr_pc, debug, max_queue, exists, files, write_queue, ww_item,
                   w_finished_event, submitted, applied, write_errors>>
    /\ UNCHANGED notWriter

\* writer.num_queued, then writer.notify_finished().  A Writer built with
\* debug set never ran the worker's __init__: it has no queue and no event,
\* and the call raises AttributeError.
WriterNotifyFinished ==
    /\ wr_pc = "open"
    /\ IF debug
       THEN wr_pc' = "raised" /\ UNCHANGED w_finished_event
       ELSE wr_pc' = "finishing" /\ w_finished_event' = TRUE
    /\ UNCHANGED <<debug, max_queue, exists, files, write_queue, ww_pc, ww_item,
                   submitted, applied, write_errors>>
    /\ UNCHANGED notWriter

\* notify_finished returns once the worker has ended.
WriterNotifyFinishedReturn ==
    /\ wr_pc = "finishing"
    /\ ww_pc = "stopped"
    /\ wr_pc' = "returned"
    /\ UNCHANGED <<debug, max_queue, exists, files, write_queue, ww_pc, ww_item,
                   w_finished_event, submitted, applied, write_errors>>
    /\ UNCHANGED notWriter

WriterNext ==
    \/ WriterNew
    \/ QueueWrite
    \/ WriterTake
    \/ WriterProcess
    \/ WriterStop
    \/ WriterNotifyFinished
    \/ WriterNotifyFinishedReturn

\* The round trip: the same writer, fed with the tiles of one array.
RoundTripNext ==
    \/ WriterNew
    \/ QueueTile
    \/ WriterTake
    \/ WriterProcess
    \/ WriterStop
    \/ WriterNotifyFinished
    \/ WriterNotifyFinishedReturn

(***************************************************************************)
(*                     SEQUENTIAL MINISTACK WORKFLOW                       *)
(* workflows.sequential.run_wrapped_phase_sequential is modelled from the  *)
(* source.  The per-batch routine run_wrapped_phase_single and VRTStack    *)
(* are not part of the sources; they are modelled from their               *)
(* specification: the routine takes a file list and either fails or        *)
(* returns per-epoch outputs, exactly one compressed SLC and one temporal  *)
(* coherence raster, all lying in the batch's folder.  gdal_calc.Calc is   *)
(* GDAL's raster calculator: a pixel at which an input holds the nodata    *)
(* value that input declares gets NoDataValue, every other pixel the value *)
(* of the expression.                                                      *)
(***************************************************************************)

\* Bounds of the workflow's inputs.
MaxFiles == 5
MaxMinistack == 3

\* not-a-number, and a number, as samples of a raster
NaN == <<>>
Val(v) == <<v>>

\* The files: raw SLCs by their position in time, and what a batch produces.
RawSlc(k) == <<"slc", k>>
CompSlc(i) == <<"compressed", i>>
TcorrFile(i) == <<"tcorr", i>>
EpochOutput(f) == <<"out", f[2]>>

TcorrPixels == {1, 2}
\* The rasters a batch may produce, over the samples NaN, 0, 1 and 2.  The
\* two pixels of a raster differ, so that a mean taken over the pixels of a
\* raster is told from a mean taken over the rasters.
TcorrRasters ==
    {<<NaN, Val(1)>>, <<Val(1), Val(0)>>, <<Val(2), Val(1)>>, <<Val(0), Val(2)>>}
\* The nodata value the coherence rasters declare: none, or 0.
TcorrNodata == {NoNodata, Val(0)}

\* A range that leaves out the last, shorter step.
PyRangeFloor(stop, step) ==
    IF step > 0 THEN [i \in 1..(stop \div step) |-> (i - 1) * step] ELSE <<>>
\* A range that takes a negative step for its size.
PyRangeAbs(stop, step) ==
    LET a == IF step > 0 THEN step ELSE 0 - step
    IN IF a > 0 THEN [i \in 1..((stop + a - 1) \div a) |-> (i - 1) * a] ELSE <<>>
\* range(0, stop, step) for stop >= 0; step = 0 raises ValueError.
PyRange(stop, step) ==
    IF step > 0
    THEN [i \in 1..((stop + step - 1) \div step) |-> (i - 1) * step]
    ELSE <<>>

\* seq[start : start + n] for start >= 0: a stop past the end is clipped to
\* the end, a negative stop counts from the end.
PySlice(seq, start, n) ==
    LET stop == start + n
    IN SubSeq(seq, start + 1,
              IF stop < 0 THEN Max(stop + Len(seq), 0) ELSE Min(stop, Len(seq)))

\* io._format_date_pair(d0, d1) of the first and last file of the batch
StartEnd(raw) == <<raw[1], raw[Len(raw)]>>

\* cur_files = comp_slc_files + cur_files, with only the raw files.
CurFilesRawOnly(comp, raw) == raw
\* cur_files = comp_slc_files + cur_files
CurFiles(comp, raw) == comp \o raw

\* What a successful run_wrapped_phase_single returns for the batch i whose
\* raw files are raw: one output per raw epoch, one compressed SLC, one
\* temporal coherence file.
SingleOutputs(raw) == [k \in DOMAIN raw |-> EpochOutput(raw[k])]

\* comp_slc_files keeping only the newest entry.
CompKeepLast(comp, new) == <<new>>
\* comp_slc_files.append(cur_comp_slc_file)
CompAppend(comp, new) == Append(comp, new)

\* A loop that goes on to its next pass while the routine is still running.
MayCallSingleEarly ==
    s_pc \in {"loop", "in_single"} /\ mini_idx < Len(ministack_starts)
\* for mini_idx, full_stack_idx in enumerate(ministack_starts): the next
\* pass begins when the one before has ended.
MayCallSingle == s_pc = "loop" /\ mini_idx < Len(ministack_starts)

\* A loop that goes on after a failed batch.
SinglePcSwallow(ok) == "loop"
\* Nothing catches what run_wrapped_phase_single raises.
SinglePcAfter(ok) == IF ok THEN "loop" ELSE "raised"

RECURSIVE SumOver(_, _, _)
SumOver(data, p, S) ==
    IF S = {} THEN 0
    ELSE LET i == CHOOSE i \in S : TRUE
         IN data[i][p][1] + SumOver(data, p, S \ {i})

ValidAt(data, p) == {i \in DOMAIN data : data[i][p] # NaN}

\* numpy.nanmean(A, axis=0): per pixel the quotient <<sum, count>> of the
\* samples that are not NaN, and NaN where there is none.
nanmean(data) ==
    [p \in TcorrPixels |->
        IF ValidAt(data, p) = {} THEN NaN
        ELSE <<SumOver(data, p, ValidAt(data, p)),
               Cardinality(ValidAt(data, p))>>]

\* NoDataValue=0
NoDataValue == 0

\* gdal_calc.Calc(NoDataValue=0, A=tcorr_files,
\*                calc="numpy.nanmean(A, axis=0)"): the pixels at which a
\* file holds the nodata value nd it declares get NoDataValue, the others
\* the value of the expression.
Calc(data, nd) ==
    [p \in TcorrPixels |->
        IF \E i \in DOMAIN data : nd # NoNodata /\ data[i][p] = nd
        THEN <<NoDataValue, 1>>
        ELSE nanmean(data)[p]]

\* list(chain.from_iterable(output_slc_files.values()))
\* Only the outputs of the last batch.
ChainLast(lists) == IF lists = <<>> THEN <<>> ELSE lists[Len(lists)]

RECURSIVE Chain(_)
Chain(lists) == IF lists = <<>> THEN <<>> ELSE Head(lists) \o Chain(Tail(lists))

Elems(seq) == {seq[i] : i \in DOMAIN seq}

SeqIdle ==
    /\ s_pc = "idle"
    /\ file_list_all = <<>>
    /\ ministack_size = 1
    /\ ministack_starts = <<>>
    /\ mini_idx = 0
    /\ cur_files = <<>>
    /\ comp_slc_files = <<>>
    /\ tcorr_files = <<>>
    /\ output_slc_files = <<>>
    /\ single_calls = <<>>
    /\ s_error = NoneVal
    /\ made_dirs = {}
    /\ work_files = {}
    /\ top_files = {}
    /\ tcorr_data = <<>>
    /\ tcorr_nodata = NoNodata
    /\ output_tcorr = NoFile
    /\ tcorr_averaged = FALSE
    /\ pl_outputs = <<>>
    /\ comp_outputs = <<>>

\* The call: any number of files, any ministack_size (the default is 10).
SeqInit ==
    /\ s_pc = "start"
    /\ \E n \in 1..MaxFiles : file_list_all = [k \in 1..n |-> RawSlc(k)]
    /\ ministack_size \in (0 - 1)..MaxMinistack
    /\ ministack_starts = <<>>
    /\ mini_idx = 0
    /\ cur_files = <<>>
    /\ comp_slc_files = <<>>
    /\ tcorr_files = <<>>
    /\ output_slc_files = <<>>
    /\ single_calls = <<>>
    /\ s_error = NoneVal
    /\ made_dirs = {}
    /\ work_files = {}
    /\ top_files = {}
    /\ tcorr_data = <<>>
    /\ tcorr_nodata \in TcorrNodata
    /\ output_tcorr = NoFile
    /\ tcorr_averaged = FALSE
    /\ pl_outputs = <<>>
    /\ comp_outputs = <<>>

\* Lines 52-68: up to ministack_starts = range(0, len(file_list_all),
\* ministack_size), which raises ValueError for a step of 0.
SeqStart ==
    /\ s_pc = "start"
    /\ IF ministack_size = 0
       THEN /\ s_pc' = "raised"
            /\ s_error' = "ValueError"
            /\ UNCHANGED ministack_starts
       ELSE /\ s_pc' = "loop"
            /\ ministack_starts' = PyRange(Len(file_list_all), ministack_size)
            /\ UNCHANGED s_error
    /\ UNCHANGED <<file_list_all, ministack_size, mini_idx, cur_files,
                   comp_slc_files, tcorr_files, output_slc_files, single_calls,
                   made_dirs, work_files, top_files, tcorr_data, tcorr_nodata,
                   output_tcorr, tcorr_averaged, pl_outputs, comp_outputs>>
    /\ UNCHANGED notSeq

\* Lines 69-97: one pass of the loop up to the call of
\* run_wrapped_phase_single.
SingleBegin ==
    /\ MayCallSingle
    /\ LET full_stack_idx == ministack_starts[mini_idx + 1]
           raw == PySlice(file_list_all, full_stack_idx, ministack_size)
       IN IF raw = <<>>
          THEN \* cur_dates[0] of an empty list: IndexError
               /\ s_pc' = "raised"
               /\ s_error' = "IndexError"
               /\ UNCHANGED <<made_dirs, cur_files, single_calls>>
          ELSE /\ made_dirs' = made_dirs \cup {StartEnd(raw)}
               /\ cur_files' = CurFiles(comp_slc_files, raw)
               /\ single_calls' =
                     Append(single_calls, CurFiles(comp_slc_files, raw))
               /\ s_pc' = "in_single"
               /\ UNCHANGED s_error
    /\ UNCHANGED <<file_list_all, ministack_size, ministack_starts, mini_idx,
                   comp_slc_files, tcorr_files, output_slc_files,
                   work_files, top_files, tcorr_data, tcorr_nodata, output_tcorr,
                   tcorr_averaged, pl_outputs, comp_outputs>>
    /\ UNCHANGED notSeq

\* Lines 97-119: run_wrapped_phase_single returns, or raises; its results
\* are appended to the three collections.
SingleReturn ==
    /\ s_pc = "in_single"
    /\ \E ok \in BOOLEAN, tc \in TcorrRasters :
         IF ok
         THEN LET raw == PySlice(file_list_all, ministack_starts[mini_idx + 1],
                                 ministack_size)
              IN /\ output_slc_files' = Append(output_slc_files, SingleOutputs(raw))
                 /\ comp_slc_files' = CompAppend(comp_slc_files, CompSlc(mini_idx))
                 /\ tcorr_files' = Append(tcorr_files, TcorrFile(mini_idx))
                 /\ tcorr_data' = Append(tcorr_data, tc)
                 /\ work_files' = work_files \cup Elems(SingleOutputs(raw))
                                    \cup {CompSlc(mini_idx), TcorrFile(mini_idx)}
                 /\ mini_idx' = mini_idx + 1
                 /\ s_pc' = SinglePcAfter(ok)
                 /\ UNCHANGED s_error
         ELSE /\ s_pc' = SinglePcAfter(ok)
              /\ s_error' = "SingleError"
              /\ UNCHANGED <<output_slc_files, comp_slc_files, tcorr_files,
                             tcorr_data, work_files, mini_idx>>
    /\ UNCHANGED <<file_list_all, ministack_size, ministack_starts, cur_files,
                   single_calls, made_dirs, top_files, tcorr_nodata,
                   output_tcorr, tcorr_averaged, pl_outputs, comp_outputs>>
    /\ UNCHANGED notSeq

\* Lines 123-157: the coherence files are averaged by gdal_calc.Calc, or the
\* only one is renamed (tcorr_files[0] raises IndexError when there is
\* none); then every output and every compressed SLC is renamed into
\* output_folder.
SeqFinish ==
    /\ s_pc = "loop"
    /\ mini_idx = Len(ministack_starts)
    /\ IF Len(tcorr_files) = 0
       THEN /\ s_pc' = "raised"
            /\ s_error' = "IndexError"
            /\ UNCHANGED <<output_tcorr, tcorr_averaged, work_files, top_files,
                           pl_outputs, comp_outputs>>
       ELSE /\ IF Len(tcorr_files) > 1
               THEN /\ output_tcorr' = Calc(tcorr_data, tcorr_nodata)
                    /\ tcorr_averaged' = TRUE
               ELSE /\ output_tcorr' = tcorr_data[1]
                    /\ UNCHANGED tcorr_averaged
            /\ pl_outputs' = Chain(output_slc_files)
            /\ comp_outputs' = comp_slc_files
            /\ top_files' = top_files \cup Elems(Chain(output_slc_files))
                              \cup Elems(comp_slc_files)
            /\ work_files' = (work_files \ (Elems(Chain(output_slc_files))
                                              \cup Elems(comp_slc_files)))
                               \ (IF Len(tcorr_files) > 1 THEN {}
                                  ELSE {tcorr_files[1]})
            /\ s_pc' = "returned"
            /\ UNCHANGED s_error
    /\ UNCHANGED <<file_list_all, ministack_size, ministack_starts, mini_idx,
                   cur_files, comp_slc_files, tcorr_files, output_slc_files,
                   single_calls, made_dirs, tcorr_data, tcorr_nodata>>
    /\ UNCHANGED notSeq

SeqNext ==
    \/ SeqStart
    \/ SingleBegin
    \/ SingleReturn
    \/ SeqFinish

(***************************************************************************)
(*                              CALC_PS_BLOCK                              *)
(***************************************************************************)

(* ps.calc_ps_block is modelled from the source.  A sample is NaN or a      *)
(* number; a mean is the exact quotient <<sum, count>>; a dispersion d is   *)
(* kept as the exact quotient <<num, den>> of its square, d * d = num/den,  *)
(* which decides d = 0 and d < threshold without rounding.                  *)
(***************************************************************************)

\* Bounds of the block.
MaxLayers == 3

PsPixels == {1, 2}
PsSamples == {NaN, Val(0), Val(1), Val(2)}
\* amp_dispersion_threshold, as <<num, den>>; 1/4 is the default
PsThresholds == {<<1, 4>>, <<1, 2>>, <<2, 1>>}

\* min_count=None
NoCount == <<>>

\* x / 0 for x # 0
Inf == <<1, 0>>
Zero == <<0, 1>>

\* stack_mag[:, p]
Column(stack, p) == [l \in DOMAIN stack |-> stack[l][p]]

RECURSIVE NanSum(_)
NanSum(col) ==
    IF col = <<>> THEN 0
    ELSE (IF Head(col) = NaN THEN 0 ELSE Head(col)[1]) + NanSum(Tail(col))

RECURSIVE NanSumSq(_)
NanSumSq(col) ==
    IF col = <<>> THEN 0
    ELSE (IF Head(col) = NaN THEN 0 ELSE Head(col)[1] * Head(col)[1])
           + NanSumSq(Tail(col))

\* count = np.count_nonzero(~np.isnan(stack_mag), axis=0)
CountValid(col) == Cardinality({l \in DOMAIN col : col[l] # NaN})

\* mean = np.nanmean(stack_mag, axis=0): NaN for a pixel without a sample
NanMean(col) ==
    IF CountValid(col) = 0 THEN NaN ELSE <<NanSum(col), CountValid(col)>>

\* std_dev = np.nanstd(stack_mag, axis=0), squared:
\* (n * sum(x^2) - sum(x)^2) / n^2
NanVar(col) ==
    IF CountValid(col) = 0 THEN NaN
    ELSE <<CountValid(col) * NanSumSq(col) - NanSum(col) * NanSum(col),
           CountValid(col) * CountValid(col)>>

\* amp_disp = std_dev / mean, squared: 0/0 is NaN, x/0 is infinite, 0/x is 0
StdOverMean(col) ==
    IF CountValid(col) = 0 THEN NaN
    ELSE IF NanSum(col) = 0
         THEN (IF NanVar(col)[1] = 0 THEN NaN ELSE Inf)
         ELSE IF NanVar(col)[1] = 0 THEN Zero
         ELSE <<NanVar(col)[1], NanSum(col) * NanSum(col)>>

\* A block reducer that keeps the dispersion of every pixel.
MaskNothing(d, count, min_count) == d
\* amp_disp[count < min_count] = np.nan
MaskTooFew(d, count, min_count) == IF count < min_count THEN NaN ELSE d

\* np.nan_to_num(x, nan=0, posinf=0, neginf=0)
nan_to_num(x) == IF x = NaN \/ x = Inf THEN Zero ELSE x

\* if min_count is None: min_count = int(0.9 * stack_mag.shape[0])
MinCount(arg, nlayers) == IF arg = NoCount THEN (9 * nlayers) \div 10 ELSE arg[1]

\* amp_disp < amp_dispersion_threshold, for a dispersion and a threshold
\* that are not negative
LessThan(d, thr) == d[1] * thr[2] * thr[2] < thr[1] * thr[1] * d[2]

\* ps = amp_disp < amp_dispersion_threshold; ps[amp_disp == 0] = False
PsFlag(d, thr) == IF d[1] = 0 THEN FALSE ELSE LessThan(d, thr)

PsIdle ==
    /\ ps_pc = "idle"
    /\ stack_mag = <<>>
    /\ amp_dispersion_threshold = <<1, 4>>
    /\ min_count_arg = NoCount
    /\ ps_mean = <<>>
    /\ ps_amp_disp = <<>>
    /\ ps_ps = <<>>

\* The call: a real-valued block of 1..MaxLayers layers.
PsInit ==
    /\ ps_pc = "input"
    /\ \E n \in 1..MaxLayers :
         /\ stack_mag \in [1..n -> [PsPixels -> PsSamples]]
         /\ min_count_arg \in {NoCount, <<1>>, <<n>>}
    /\ amp_dispersion_threshold \in PsThresholds
    /\ ps_mean = <<>>
    /\ ps_amp_disp = <<>>
    /\ ps_ps = <<>>

calc_ps_block ==
    /\ ps_pc = "input"
    /\ LET min_count == MinCount(min_count_arg, Len(stack_mag))
           amp_disp == [p \in PsPixels |->
               nan_to_num(MaskTooFew(StdOverMean(Column(stack_mag, p)),
                                     CountValid(Column(stack_mag, p)),
                                     min_count))]
       IN /\ ps_mean' = [p \in PsPixels |-> nan_to_num(NanMean(Column(stack_mag, p)))]
          /\ ps_amp_disp' = amp_disp
          /\ ps_ps' = [p \in PsPixels |->
                          PsFlag(amp_disp[p], amp_dispersion_threshold)]
    /\ ps_pc' = "done"
    /\ UNCHANGED <<stack_mag, amp_dispersion_threshold, min_count_arg>>
    /\ UNCHANGED notPs

(***************************************************************************)
(*                               UNWRAP.RUN                                *)
(* unwrap.run and the jobs it submits.  Of unwrap.unwrap and coarse_unwrap *)
(* the model keeps the check of the shapes, the creation of the output and *)
(* the time the unwrapping takes; what the unwrapping computes (isce3,     *)
(* tophu) is left out.                                                     *)
(***************************************************************************)

\* Bounds of the number of interferograms and of max_jobs.
MaxIfgs == 3
MaxJobs == 2

Ifg(k) == <<"ifg", k>>
Cor(k) == <<"cor", k>>
\* (output_path / Path(f).name).with_suffix(unw_suffix)
UnwOf(f) == <<"unw", f[2]>>
all_out_files == [k \in DOMAIN ifg_filenames |-> UnwOf(ifg_filenames[k])]
\* str(unw_filename).replace(unw_suffix, CONNCOMP_SUFFIX)
ConncompOf(outf) == <<"conncomp", outf[2]>>

\* Path(outf).exists() and not overwrite
SkipExisting(outf, ex, ow) == outf \in ex /\ ~ow

\* zip(in_files, out_files, cor_filenames): as long as the shortest list
Zip3(a, b, c) ==
    [k \in 1..Min(Len(a), Min(Len(b), Len(c))) |->
        [ifg_filename |-> a[k], unw_filename |-> b[k], corr_filename |-> c[k]]]

\* unwrap raises ValueError when the correlation raster has another shape
\* than the interferogram (lines 219-224).
JobRaises(job, odd) == job.corr_filename \in odd

\* A job has ended when unwrap has returned or raised.
JobEnded(st) == st \in {"done", "failed"}

\* An executor with max_workers workers starts a job while fewer than
\* max_workers jobs are started and not ended.
WorkerFree(states, workers) ==
    Cardinality({i \in DOMAIN states :
                    states[i] # "queued" /\ ~JobEnded(states[i])}) < workers

\* Where run is after a job has raised: a thread pool keeps the exception in
\* the future; within the submit of DummyProcessPoolExecutor it either
\* leaves submit at once or is kept in the future for fut.result().
PcAfterRaise(workers) ==
    IF workers > 1 THEN {"submit"} ELSE {"submit", "raised"}

UnwrapIdle ==
    /\ u_pc = "idle"
    /\ ifg_filenames = <<>>
    /\ cor_filenames = <<>>
    /\ odd_cor = {}
    /\ out_exists = {}
    /\ overwrite = FALSE
    /\ max_jobs = 1
    /\ downsample_factor = 1
    /\ u_k = 0
    /\ in_files = <<>>
    /\ out_files = <<>>
    /\ futures = <<>>
    /\ job_state = <<>>
    /\ unw_paths = <<>>

UnwrapInit ==
    /\ u_pc = "start"
    /\ \E n \in 0..MaxIfgs : ifg_filenames = [k \in 1..n |-> Ifg(k)]
    /\ \E n \in 0..MaxIfgs : cor_filenames = [k \in 1..n |-> Cor(k)]
    /\ odd_cor \in SUBSET Elems(cor_filenames)
    /\ out_exists \in SUBSET {UnwOf(ifg_filenames[k]) : k \in DOMAIN ifg_filenames}
    /\ overwrite \in BOOLEAN
    /\ max_jobs \in {1, MaxJobs}
    /\ downsample_factor \in {1, 2}
    /\ u_k = 0
    /\ in_files = <<>>
    /\ out_files = <<>>
    /\ futures = <<>>
    /\ job_state = <<>>
    /\ unw_paths = <<>>

\* Lines 82-96: the two lists must be as long as each other.
UnwrapStart ==
    /\ u_pc = "start"
    /\ u_pc' = IF Len(cor_filenames) # Len(ifg_filenames) THEN "raised"
               ELSE "filter"
    /\ UNCHANGED <<ifg_filenames, cor_filenames, odd_cor, out_exists, overwrite,
                   max_jobs, downsample_factor, u_k, in_files, out_files,
                   futures, job_state, unw_paths>>
    /\ UNCHANGED notUnwrap

\* One pass of "for inf, outf in zip(ifg_filenames, all_out_files)".
UnwrapFilter ==
    /\ u_pc = "filter"
    /\ u_k < Len(ifg_filenames)
    /\ u_k' = u_k + 1
    /\ IF SkipExisting(all_out_files[u_k + 1], out_exists, overwrite)
       THEN UNCHANGED <<in_files, out_files>>
       ELSE /\ in_files' = Append(in_files, ifg_filenames[u_k + 1])
            /\ out_files' = Append(out_files, all_out_files[u_k + 1])
    /\ u_pc' = IF u_k + 1 = Len(ifg_filenames) THEN "submit" ELSE "filter"
    /\ UNCHANGED <<ifg_filenames, cor_filenames, odd_cor, out_exists, overwrite,
                   max_jobs, downsample_factor, futures, job_state, unw_paths>>
    /\ UNCHANGED notUnwrap

\* Without interferograms the filtering loop makes no pass.
UnwrapFilterNone ==
    /\ u_pc = "filter"
    /\ Len(ifg_filenames) = 0
    /\ u_pc' = "submit"
    /\ UNCHANGED <<ifg_filenames, cor_filenames, odd_cor, out_exists, overwrite,
                   max_jobs, downsample_factor, u_k, in_files, out_files,
                   futures, job_state, unw_paths>>
    /\ UNCHANGED notUnwrap

\* Lines 112-128: exc.submit(unwrap, ...) for the next triple of
\* zip(in_files, out_files, cor_filenames).  With max_jobs > 1 the job goes
\* to a thread pool and submit returns.  Otherwise the executor is
\* DummyProcessPoolExecutor (dolphin._background), which runs the job within
\* submit: the next submit comes after the job has ended.
UnwrapSubmit ==
    /\ u_pc = "submit"
    /\ Len(futures) < Len(Zip3(in_files, out_files, cor_filenames))
    /\ max_jobs > 1 \/ \A j \in DOMAIN job_state : JobEnded(job_state[j])
    /\ futures' = Append(futures,
                         Zip3(in_files, out_files, cor_filenames)[Len(futures) + 1])
    /\ job_state' = Append(job_state, "queued")
    /\ UNCHANGED <<u_pc, ifg_filenames, cor_filenames, odd_cor, out_exists,
                   overwrite, max_jobs, downsample_factor, u_k, in_files,
                   out_files, unw_paths>>
    /\ UNCHANGED notUnwrap

\* A worker of the executor takes the oldest job that waits and calls
\* unwrap(ifg_filename, corr_filename, unw_filename, ...).
UnwrapJobTake ==
    /\ u_pc = "submit"
    /\ \E j \in DOMAIN job_state :
         /\ job_state[j] = "queued"
         /\ \A i \in 1..(j - 1) : job_state[i] # "queued"
         /\ WorkerFree(job_state, max_jobs)
         /\ job_state' = [job_state EXCEPT ![j] = "started"]
    /\ UNCHANGED <<u_pc, ifg_filenames, cor_filenames, odd_cor, out_exists,
                   overwrite, max_jobs, downsample_factor, u_k, in_files,
                   out_files, futures, unw_paths>>
    /\ UNCHANGED notUnwrap

\* unwrap, lines 201-224: with downsample_factor > 1 it calls coarse_unwrap;
\* otherwise it raises ValueError for rasters of different shapes.
UnwrapJobCheck ==
    /\ u_pc = "submit"
    /\ \E j \in DOMAIN job_state :
         /\ job_state[j] = "started"
         /\ IF downsample_factor > 1
            THEN /\ job_state' = [job_state EXCEPT ![j] = "coarse"]
                 /\ UNCHANGED u_pc
            ELSE IF JobRaises(futures[j], odd_cor)
            THEN /\ job_state' = [job_state EXCEPT ![j] = "failed"]
                 /\ u_pc' \in PcAfterRaise(max_jobs)
            ELSE /\ job_state' = [job_state EXCEPT ![j] = "write_unw"]
                 /\ UNCHANGED u_pc
    /\ UNCHANGED <<ifg_filenames, cor_filenames, odd_cor, out_exists, overwrite,
                   max_jobs, downsample_factor, u_k, in_files, out_files,
                   futures, unw_paths>>
    /\ UNCHANGED notUnwrap

\* unwrap, lines 246-253: io.write_arr(arr=None, output_name=unw_filename)
\* creates the unwrapped output.
UnwrapJobWriteUnw ==
    /\ u_pc = "submit"
    /\ \E j \in DOMAIN job_state :
         /\ job_state[j] = "write_unw"
         /\ job_state' = [job_state EXCEPT ![j] = "write_conncomp"]
         /\ out_exists' = out_exists \cup {futures[j].unw_filename}
    /\ UNCHANGED <<u_pc, ifg_filenames, cor_filenames, odd_cor, overwrite,
                   max_jobs, downsample_factor, u_k, in_files, out_files,
                   futures, unw_paths>>
    /\ UNCHANGED notUnwrap

\* unwrap, lines 254-263: io.write_arr(arr=None,
\* output_name=conncomp_filename) creates the file of the labels.
UnwrapJobWriteConncomp ==
    /\ u_pc = "submit"
    /\ \E j \in DOMAIN job_state :
         /\ job_state[j] = "write_conncomp"
         /\ job_state' = [job_state EXCEPT ![j] = "unwrapping"]
         /\ out_exists' = out_exists \cup {ConncompOf(futures[j].unw_filename)}
    /\ UNCHANGED <<u_pc, ifg_filenames, cor_filenames, odd_cor, overwrite,
                   max_jobs, downsample_factor, u_k, in_files, out_files,
                   futures, unw_paths>>
    /\ UNCHANGED notUnwrap

\* unwrap, lines 265-313: the unwrapping into the outputs it has created,
\* and the return.
UnwrapJobEnd ==
    /\ u_pc = "submit"
    /\ \E j \in DOMAIN job_state :
         /\ job_state[j] = "unwrapping"
         /\ job_state' = [job_state EXCEPT ![j] = "done"]
    /\ UNCHANGED <<u_pc, ifg_filenames, cor_filenames, odd_cor, out_exists,
                   overwrite, max_jobs, downsample_factor, u_k, in_files,
                   out_files, futures, unw_paths>>
    /\ UNCHANGED notUnwrap

\* coarse_unwrap, lines 424-455: the two rasters are loaded and unwrapped by
\* tophu.  It does not compare the shapes: with rasters of different shapes
\* tophu, which is not part of the repository, either raises or returns.
CoarseUnwrap ==
    /\ u_pc = "submit"
    /\ \E j \in DOMAIN job_state :
         /\ job_state[j] = "coarse"
         /\ \E raises \in {FALSE, JobRaises(futures[j], odd_cor)} :
              IF raises
              THEN /\ job_state' = [job_state EXCEPT ![j] = "failed"]
                   /\ u_pc' \in PcAfterRaise(max_jobs)
              ELSE /\ job_state' = [job_state EXCEPT ![j] = "coarse_write_unw"]
                   /\ UNCHANGED u_pc
    /\ UNCHANGED <<ifg_filenames, cor_filenames, odd_cor, out_exists, overwrite,
                   max_jobs, downsample_factor, u_k, in_files, out_files,
                   futures, unw_paths>>
    /\ UNCHANGED notUnwrap

\* coarse_unwrap, lines 457-462: io.write_arr(arr=unwrapped_phase_lores,
\* output_name=unw_filename).
CoarseUnwrapWriteUnw ==
    /\ u_pc = "submit"
    /\ \E j \in DOMAIN job_state :
         /\ job_state[j] = "coarse_write_unw"
         /\ job_state' = [job_state EXCEPT ![j] = "coarse_write_conncomp"]
         /\ out_exists' = out_exists \cup {futures[j].unw_filename}
    /\ UNCHANGED <<u_pc, ifg_filenames, cor_filenames, odd_cor, overwrite,
                   max_jobs, downsample_factor, u_k, in_files, out_files,
                   futures, unw_paths>>
    /\ UNCHANGED notUnwrap

\* coarse_unwrap, lines 464-469: io.write_arr(arr=conncomp_lores,
\* output_name=conncomp_filename).
CoarseUnwrapWriteConncomp ==
    /\ u_pc = "submit"
    /\ \E j \in DOMAIN job_state :
         /\ job_state[j] = "coarse_write_conncomp"
         /\ job_state' = [job_state EXCEPT ![j] = "coarse_return"]
         /\ out_exists' = out_exists \cup {ConncompOf(futures[j].unw_filename)}
    /\ UNCHANGED <<u_pc, ifg_filenames, cor_filenames, odd_cor, overwrite,
                   max_jobs, downsample_factor, u_k, in_files, out_files,
                   futures, unw_paths>>
    /\ UNCHANGED notUnwrap

\* coarse_unwrap, line 470, and unwrap, line 202: the return.
CoarseUnwrapReturn ==
    /\ u_pc = "submit"
    /\ \E j \in DOMAIN job_state :
         /\ job_state[j] = "coarse_return"
         /\ job_state' = [job_state EXCEPT ![j] = "done"]
    /\ UNCHANGED <<u_pc, ifg_filenames, cor_filenames, odd_cor, out_exists,
                   overwrite, max_jobs, downsample_factor, u_k, in_files,
                   out_files, futures, unw_paths>>
    /\ UNCHANGED notUnwrap

\* Lines 129-141: fut.result() for every future, which raises what its job
\* raised; the executor is left once every job has ended.  Then
\* all_out_files is returned.
UnwrapReturn ==
    /\ u_pc = "submit"
    /\ Len(futures) = Len(Zip3(in_files, out_files, cor_filenames))
    /\ \A j \in DOMAIN job_state : JobEnded(job_state[j])
    /\ IF \E j \in DOMAIN job_state : job_state[j] = "failed"
       THEN u_pc' = "raised" /\ UNCHANGED unw_paths
       ELSE u_pc' = "returned" /\ unw_paths' = all_out_files
    /\ UNCHANGED <<ifg_filenames, cor_filenames, odd_cor, out_exists, overwrite,
                   max_jobs, downsample_factor, u_k, in_files, out_files,
                   futures, job_state>>
    /\ UNCHANGED notUnwrap

UnwrapNext ==
    \/ UnwrapStart
    \/ UnwrapFilter
    \/ UnwrapFilterNone
    \/ UnwrapSubmit
    \/ UnwrapJobTake
    \/ UnwrapJobCheck
    \/ UnwrapJobWriteUnw
    \/ UnwrapJobWriteConncomp
    \/ UnwrapJobEnd
    \/ CoarseUnwrap
    \/ CoarseUnwrapWriteUnw
    \/ CoarseUnwrapWriteConncomp
    \/ CoarseUnwrapReturn
    \/ UnwrapReturn

(***************************************************************************)
(*                               CREATE_PS                                 *)
(* ps.create_ps with the loader it iterates.  VRTStack.iter_blocks lives   *)
(* in dolphin.stack; it is modelled from its specification: it builds an   *)
(* EagerLoader over the stack with the block_shape, skip_empty and         *)
(* nodata_mask it is given and yields what EagerLoader.iter_blocks yields. *)
(* The raster has one column; a tile's block holds every layer of its      *)
(* rows.  queue_write hands a block to the Writer, whose thread applies    *)
(* the blocks in the order they were queued; notify_finished waits for the *)
(* last one.                                                               *)
(***************************************************************************)

\* Bounds of the stack's raster and of the block.
MaxPsRows == 2
MaxPsBlock == 2

\* NODATA_VALUES.ps, the largest uint8
PsNodata == 255

\* The columns of the stack: a pixel through the layers.  Nothing but NaN,
\* nothing but 0, a constant, one that varies, one with a gap, and zeros
\* with a gap.
StackColumns ==
    {[l \in 1..MaxLayers |-> "nan"],
     [l \in 1..MaxLayers |-> "0"],
     [l \in 1..MaxLayers |-> "1"],
     [l \in 1..MaxLayers |-> IF l = 1 THEN "-2" ELSE "1"],
     [l \in 1..MaxLayers |-> IF l = 1 THEN "nan" ELSE "1"],
     [l \in 1..MaxLayers |-> IF l = 1 THEN "nan" ELSE "0"]}

\* np.abs of a sample
Magnitude(s) ==
    IF s = "nan" THEN NaN
    ELSE IF s = "0" THEN Val(0)
    ELSE IF s = "1" THEN Val(1)
    ELSE Val(2)

\* Dispersions an existing file holds, squared as calc_ps_block's are.
ExistingDisps == {Zero, <<1, 100>>, <<1, 1>>}
\* self._nodata = get_raster_nodata(filename) or np.nan
LoaderNodata(fnd) == IF fnd = NoneVal THEN "nan" ELSE fnd

\* The block the loader reads for a tile: [row of the tile -> [layer -> sample]]
StackBlock(stack, tile) ==
    [i \in 1..(tile.rows[2] - tile.rows[1]) |-> stack[tile.rows[1] + i]]

\* if self._skip_empty and self._nodata_mask is not None:
\*     if self._nodata_mask[rows, cols].all(): continue
LoaderSkips(se, mask, tile) == se /\ mask # NoMask /\ MaskAll(mask, tile)

\* np.all(cur_data == 0) or np.all(np.isnan(cur_data))
BlockEmpty(block) == BlockAllNodata(block, "0") \/ BlockAllNodata(block, "nan")

\* The PS byte without the nodata value: ps.astype(np.uint8)
PsByteCast(flag, invalid) == IF flag THEN 1 ELSE 0
\* ps = ps.astype(np.uint8); ps[invalid] = NODATA_VALUES.ps
PsByte(flag, invalid) == IF invalid THEN PsNodata ELSE IF flag THEN 1 ELSE 0

\* calc_ps_block(magnitude_cur, threshold, min_count=len(magnitude_cur)) for
\* one pixel, and the byte create_ps stores for it.
PixelColumn(col) == [l \in DOMAIN col |-> Magnitude(col[l])]
PixelMean(col) == nan_to_num(NanMean(PixelColumn(col)))
PixelDisp(col) ==
    nan_to_num(MaskTooFew(StdOverMean(PixelColumn(col)),
                          CountValid(PixelColumn(col)), Len(col)))
PixelPs(col, thr) ==
    PsByte(PsFlag(PixelDisp(col), thr), PixelDisp(col)[1] = 0)

\* np.ma.masked_equal(out, nd).mask
MaskedEqual(arr, nd) == [r \in DOMAIN arr |-> nd # NoNodata /\ arr[r] = nd]

\* _use_existing_files: ps = amp_disp < threshold, as uint8, and
\* ps[(amp_disp == 0) | amp_disp.mask] = NODATA_VALUES.ps
ExistingPs(disp, nd, thr) ==
    [r \in DOMAIN disp |->
        PsByte(LessThan(disp[r], thr),
               disp[r][1] = 0 \/ MaskedEqual(disp, nd)[r])]

\* writer.queue_write(data, filename, rows.start, cols.start); data holds
\* one value per row of the tile
PsWrite(data, filename, tile) ==
    [data |-> data, filename |-> filename, row_start |-> tile.rows[1],
     col_start |-> tile.cols[1]]

\* The block create_ps builds for a tile, of the tile's rows: img holds a
\* value for every row of the raster.
TileBlock(tile, img) ==
    [i \in 1..(tile.rows[2] - tile.rows[1]) |-> img[tile.rows[1] + i]]

\* What a file holds after write_block has written a block at row_start.
Patched(file, req) ==
    [r \in DOMAIN file |->
        IF r > req.row_start /\ r <= req.row_start + Len(req.data)
        THEN req.data[r - req.row_start]
        ELSE file[r]]

CreatePsIdle ==
    /\ cp_pc = "idle"
    /\ slc_stack = <<>>
    /\ cp_block_shape = <<1, 1>>
    /\ cp_nodata_mask = NoMask
    /\ cp_file_nodata = NoneVal
    /\ cp_threshold = <<1, 4>>
    /\ use_existing = FALSE
    /\ existing_disp = <<>>
    /\ existing_mean = <<>>
    /\ existing_nodata = NoNodata
    /\ cp_skip_empty = TRUE
    /\ cp_slices = <<>>
    /\ cp_next = 1
    /\ cp_queued = <<>>
    /\ cp_got = 0
    /\ cp_computed = <<>>
    /\ cp_filled = <<>>
    /\ cp_blocks = <<>>
    /\ cp_writes = <<>>
    /\ cp_pending = <<>>
    /\ out_ps = NoFile
    /\ out_amp_disp = NoFile
    /\ out_amp_mean = NoFile

\* Either the stack is given and the existing files are not, or the
\* existing files are given and the stack is not looked at.
CreatePsInit ==
    /\ cp_pc = "start"
    /\ \E n \in 1..MaxPsRows :
         /\ use_existing \in BOOLEAN
         /\ IF use_existing
            THEN /\ slc_stack = [r \in 1..n |-> [l \in 1..MaxLayers |-> "1"]]
                 /\ existing_disp \in [1..n -> ExistingDisps]
                 /\ existing_nodata \in {NoNodata} \cup ExistingDisps
                 /\ cp_nodata_mask = NoMask
                 /\ cp_file_nodata = NoneVal
                 /\ cp_block_shape = <<1, 1>>
            ELSE /\ slc_stack \in [1..n -> StackColumns]
                 /\ existing_disp = <<>>
                 /\ existing_nodata = NoNodata
                 /\ cp_nodata_mask \in {NoMask} \cup [1..n -> BOOLEAN]
                 /\ cp_file_nodata \in {NoneVal, "0"}
                 /\ cp_block_shape \in (1..MaxPsBlock) \X {1}
         /\ existing_mean = [r \in DOMAIN existing_disp |-> <<1, 1>>]
    /\ cp_threshold \in PsThresholds
    /\ cp_skip_empty = TRUE
    /\ cp_slices = <<>>
    /\ cp_next = 1
    /\ cp_queued = <<>>
    /\ cp_got = 0
    /\ cp_computed = <<>>
    /\ cp_filled = <<>>
    /\ cp_blocks = <<>>
    /\ cp_writes = <<>>
    /\ cp_pending = <<>>
    /\ out_ps = NoFile
    /\ out_amp_disp = NoFile
    /\ out_amp_mean = NoFile

\* Lines 74-114.  With existing files, _use_existing_files writes the three
\* outputs and create_ps returns.  Otherwise the outputs are created with
\* their nodata values, nothing written, and the loader is built with
\* skip_empty = nodata_mask is None.
CreatePsStart ==
    /\ cp_pc = "start"
    /\ IF use_existing
       THEN /\ out_ps' = ExistingPs(existing_disp, existing_nodata, cp_threshold)
            /\ out_amp_disp' = existing_disp
            /\ out_amp_mean' = existing_mean
            /\ cp_pc' = "done"
            /\ UNCHANGED <<cp_skip_empty, cp_slices>>
       ELSE /\ out_ps' = [r \in DOMAIN slc_stack |-> CreatedPixel(PsNodata)]
            /\ out_amp_disp' = [r \in DOMAIN slc_stack |-> CreatedPixel(Zero)]
            /\ out_amp_mean' = [r \in DOMAIN slc_stack |-> CreatedPixel(Zero)]
            /\ cp_skip_empty' = (cp_nodata_mask = NoMask)
            /\ cp_slices' = iter_blocks(<<Len(slc_stack), 1>>, cp_block_shape,
                                        <<0, 0>>)
            /\ cp_pc' = "queueing"
    /\ UNCHANGED <<cpIn, cp_next, cp_queued, cp_got, cp_computed, cp_filled,
                   cp_blocks, cp_writes, cp_pending>>
    /\ UNCHANGED notCreatePs

\* One pass of the loader's "for rows, cols in self.slices": the read of the
\* tile is queued unless the mask lets the loader skip it.
CreatePsQueueRead ==
    /\ cp_pc = "queueing"
    /\ cp_next <= Len(cp_slices)
    /\ cp_queued' = IF LoaderSkips(cp_skip_empty, cp_nodata_mask, cp_slices[cp_next])
                    THEN cp_queued
                    ELSE Append(cp_queued, cp_slices[cp_next])
    /\ cp_next' = cp_next + 1
    /\ cp_pc' = IF cp_next = Len(cp_slices) THEN "blocks" ELSE "queueing"
    /\ UNCHANGED <<cpIn, cp_skip_empty, cp_slices, cp_got, cpOut>>
    /\ UNCHANGED notCreatePs

\* One pass of the loader's retrieval loop and, when it yields the block,
\* the body of create_ps's loop down to line 141.  get_data raises what the
\* read raised, and create_ps ends with it.  The loader drops a block that
\* is nothing but nodata; create_ps fills an empty block and runs
\* calc_ps_block on any other, which gives the three blocks to queue at the
\* tile's offset.
CreatePsBlock ==
    /\ cp_pc = "blocks"
    /\ cp_got < Len(cp_queued)
    /\ cp_got' = cp_got + 1
    /\ \E ok \in BOOLEAN :
         LET tile == cp_queued[cp_got + 1]
             cur_data == StackBlock(slc_stack, tile)
             FillPs == [r \in DOMAIN slc_stack |-> PsNodata]
             FillZero == [r \in DOMAIN slc_stack |-> Zero]
             Mean == [r \in DOMAIN slc_stack |-> PixelMean(slc_stack[r])]
             Disp == [r \in DOMAIN slc_stack |-> PixelDisp(slc_stack[r])]
             Ps == [r \in DOMAIN slc_stack |->
                       PixelPs(slc_stack[r], cp_threshold)]
         IN IF ~ok
            THEN cp_pc' = "raised" /\ UNCHANGED cpOut
            ELSE IF BlockAllNodata(cur_data, LoaderNodata(cp_file_nodata))
            THEN UNCHANGED <<cp_pc, cpOut>>
            ELSE LET empty == BlockEmpty(cur_data)
                     mean == IF empty THEN TileBlock(tile, FillZero)
                             ELSE TileBlock(tile, Mean)
                     amp_disp == IF empty THEN TileBlock(tile, FillZero)
                                 ELSE TileBlock(tile, Disp)
                     ps == IF empty THEN TileBlock(tile, FillPs)
                           ELSE TileBlock(tile, Ps)
                     queued == <<PsWrite(mean, "output_amp_mean_file", tile),
                                 PsWrite(amp_disp, "output_amp_dispersion_file",
                                         tile),
                                 PsWrite(ps, "output_file", tile)>>
                 IN /\ cp_filled' = IF empty THEN Append(cp_filled, tile)
                                    ELSE cp_filled
                    /\ cp_computed' = IF empty THEN cp_computed
                                      ELSE Append(cp_computed, tile)
                    /\ cp_blocks' = queued
                    /\ cp_pc' = "queue_write"
                    /\ UNCHANGED <<cp_writes, cp_pending, out_ps, out_amp_disp,
                                   out_amp_mean>>
    /\ UNCHANGED <<cpIn, cp_skip_empty, cp_slices, cp_next, cp_queued>>
    /\ UNCHANGED notCreatePs

\* Lines 144-146: one writer.queue_write call, which puts the block on the
\* Writer's queue and returns.  After the third the loop goes on.
CreatePsQueueWrite ==
    /\ cp_pc = "queue_write"
    /\ cp_blocks # <<>>
    /\ cp_writes' = Append(cp_writes, Head(cp_blocks))
    /\ cp_pending' = Append(cp_pending, Head(cp_blocks))
    /\ cp_blocks' = Tail(cp_blocks)
    /\ cp_pc' = IF Len(cp_blocks) = 1 THEN "blocks" ELSE "queue_write"
    /\ UNCHANGED <<cpIn, cpLoader, cp_computed, cp_filled, out_ps, out_amp_disp,
                   out_amp_mean>>
    /\ UNCHANGED notCreatePs

\* The Writer's thread: Writer.write applies the oldest queued block with
\* write_block.
CreatePsWrite ==
    /\ cp_pending # <<>>
    /\ LET req == Head(cp_pending)
       IN /\ out_ps' = IF req.filename = "output_file"
                       THEN Patched(out_ps, req) ELSE out_ps
          /\ out_amp_disp' = IF req.filename = "output_amp_dispersion_file"
                             THEN Patched(out_amp_disp, req) ELSE out_amp_disp
          /\ out_amp_mean' = IF req.filename = "output_amp_mean_file"
                             THEN Patched(out_amp_mean, req) ELSE out_amp_mean
    /\ cp_pending' = Tail(cp_pending)
    /\ UNCHANGED <<cp_pc, cpIn, cpLoader, cp_computed, cp_filled, cp_blocks,
                   cp_writes>>
    /\ UNCHANGED notCreatePs

\* The loader's loop has ended: writer.num_queued is read and
\* writer.notify_finished() is called.
CreatePsFinish ==
    /\ cp_pc = "blocks"
    /\ cp_got = Len(cp_queued)
    /\ cp_pc' = "finishing"
    /\ UNCHANGED <<cpIn, cpLoader, cpOut>>
    /\ UNCHANGED notCreatePs

\* notify_finished returns once the Writer has applied every queued block,
\* and create_ps returns.
CreatePsReturn ==
    /\ cp_pc = "finishing"
    /\ cp_pending = <<>>
    /\ cp_pc' = "done"
    /\ UNCHANGED <<cpIn, cpLoader, cpOut>>
    /\ UNCHANGED notCreatePs

CreatePsNext ==
    \/ CreatePsStart
    \/ CreatePsQueueRead
    \/ CreatePsBlock
    \/ CreatePsQueueWrite
    \/ CreatePsWrite
    \/ CreatePsFinish
    \/ CreatePsReturn

(***************************************************************************)
(*                            SPECIFICATIONS                               *)
(***************************************************************************)

InitPlanner == PlannerInit /\ ReaderIdle /\ WriterIdle /\ SeqIdle /\ PsIdle
    /\ UnwrapIdle /\ CreatePsIdle
InitIndexer == PlannerIdle /\ IndexerInit /\ WriterIdle /\ SeqIdle /\ PsIdle
    /\ UnwrapIdle /\ CreatePsIdle
InitReader == PlannerIdle /\ ReaderInit /\ WriterIdle /\ SeqIdle /\ PsIdle
    /\ UnwrapIdle /\ CreatePsIdle
InitWriter == PlannerIdle /\ ReaderIdle /\ WriterInit /\ SeqIdle /\ PsIdle
    /\ UnwrapIdle /\ CreatePsIdle
InitSequential == PlannerIdle /\ ReaderIdle /\ WriterIdle /\ SeqInit /\ PsIdle
    /\ UnwrapIdle /\ CreatePsIdle
InitPs == PlannerIdle /\ ReaderIdle /\ WriterIdle /\ SeqIdle /\ PsInit
    /\ UnwrapIdle /\ CreatePsIdle
InitUnwrap ==
    PlannerIdle /\ ReaderIdle /\ WriterIdle /\ SeqIdle /\ PsIdle /\ UnwrapInit
    /\ CreatePsIdle
InitCreatePs ==
    PlannerIdle /\ ReaderIdle /\ WriterIdle /\ SeqIdle /\ PsIdle /\ UnwrapIdle
    /\ CreatePsInit

SpecPlanner == InitPlanner /\ [][PlannerNext]_vars
\* The planner is one sequential call: a step it can take, it takes.
SpecPlannerFair == SpecPlanner /\ WF_vars(PlannerNext)
SpecIndexer == InitIndexer /\ [][EagerLoaderInit]_vars
SpecReader == InitReader /\ [][ReaderNext]_vars
SpecWriter == InitWriter /\ [][WriterNext]_vars
SpecRoundTrip == InitWriter /\ [][RoundTripNext]_vars
SpecSequential == InitSequential /\ [][SeqNext]_vars
SpecPs == InitPs /\ [][calc_ps_block]_vars
SpecUnwrap == InitUnwrap /\ [][UnwrapNext]_vars
SpecCreatePs == InitCreatePs /\ [][CreatePsNext]_vars

Init == InitReader
Next == ReaderNext
Spec == SpecReader

(***************************************************************************)
(*                               PROPERTIES                                *)
(***************************************************************************)

\* ---- helpers of the properties ----
Range(seq) == {seq[i] : i \in DOMAIN seq}
Pos(seq, x) == CHOOSE i \in DOMAIN seq : seq[i] = x
SamplesOf(block) == {block[i][j] : i \in DOMAIN block, j \in DOMAIN block[1]}
YieldedLocs == {yielded[k].loc : k \in DOMAIN yielded}
ErrorsIn(seq) == Cardinality({i \in DOMAIN seq : seq[i].kind = "error"})
InitialFiles == [f \in FileNames |-> IF f \in exists THEN EmptyFile ELSE NoFile]
Written(reqs) == SelectSeq(reqs, LAMBDA q : ~WriteRaises(exists, q))

\* C1: the block the planner returns fits the budget,
\* rows * cols * nstack * bytes_per_pixel <= max_bytes, unless one native
\* chunk alone already exceeds max_bytes.
C1_BlockWithinBudget ==
    (/\ p_pc = "done"
     /\ BlockBytes(file_chunk_size, nstack, bytes_per_pixel) <= max_bytes)
        => BlockBytes(cur_block_shape, nstack, bytes_per_pixel) <= max_bytes

\* C2: the block get_max_block_shape returns never exceeds the raster:
\* rows <= raster rows and cols <= raster cols, whatever the native chunk.
C2_BlockWithinRaster ==
    p_pc = "done" =>
        /\ cur_block_shape[1] <= shape[1]
        /\ cur_block_shape[2] <= shape[2]

\* A native chunk taller than the raster and narrower than 16 pixels.
C2_Witness ==
    /\ p_pc = "done"
    /\ raw_chunk[1] > shape[1]
    /\ raw_chunk[2] < MinChunkLines
    /\ cur_block_shape = shape

\* C3: the tiles of self.slices cover the raster exactly: with the overlap
\* removed every pixel lies in exactly one tile, and no tile range extends
\* past the raster.
C3_TilesCoverExactly ==
    r_pc # "new" =>
        /\ \A i \in DOMAIN slices :
             /\ 0 <= slices[i].rows[1] /\ slices[i].rows[1] < slices[i].rows[2]
             /\ slices[i].rows[2] <= arr_shape[1]
             /\ 0 <= slices[i].cols[1] /\ slices[i].cols[1] < slices[i].cols[2]
             /\ slices[i].cols[2] <= arr_shape[2]
        /\ \A r \in 1..arr_shape[1] : \A c \in 1..arr_shape[2] :
             Cardinality({i \in DOMAIN slices :
                 LET t == RemoveOverlap(slices[i], i, arr_shape, block_shape,
                                        overlaps)
                 IN r \in RowsOf(t) /\ c \in ColsOf(t)}) = 1

\* Several tiles with overlap on both axes, the last row of tiles smaller
\* than the block, on a raster that is not square.
C3_Witness ==
    /\ r_pc = "queueing"
    /\ Len(slices) > 2
    /\ overlaps[1] > 0 /\ overlaps[2] > 0
    /\ arr_shape[1] % block_shape[1] # 0
    /\ arr_shape[1] # arr_shape[2]

\* C4: with skip_empty set, a tile over whose region the mask is entirely
\* false is never queued for reading and never yielded.
C4_FalseMaskTileNeverRead ==
    \A i \in DOMAIN slices :
        (/\ skip_empty
         /\ nodata_mask # NoMask
         /\ \A r \in RowsOf(slices[i]) : ~nodata_mask[r])
            => /\ slices[i] \notin Range(queued_slices)
               /\ slices[i] \notin YieldedLocs

\* C5: a tile whose samples are each the nodata value or NaN is never
\* yielded, whatever the nodata value (NaN, numeric, unset).
C5_NodataOrNanTileDropped ==
    \A k \in DOMAIN yielded :
        ~(\A x \in SamplesOf(yielded[k].block) :
              IsNan(x) \/ FloatEq(x, nodata))

\* C6: tiles are yielded in the order their reads were queued: the yielded
\* locations are an order-preserving subsequence of the planned tiles, and
\* each payload is the data of the location it comes with.
C6_YieldedInQueueOrder ==
    /\ \A i \in DOMAIN queued_slices : queued_slices[i] \in Range(slices)
    /\ \A i, j \in DOMAIN queued_slices :
         i < j => Pos(slices, queued_slices[i]) < Pos(slices, queued_slices[j])
    /\ \A k \in DOMAIN yielded : yielded[k].loc \in Range(queued_slices)
    /\ \A k, m \in DOMAIN yielded :
         k < m => Pos(queued_slices, yielded[k].loc)
                      < Pos(queued_slices, yielded[m].loc)
    /\ \A k \in DOMAIN yielded : yielded[k].block = load_gdal(yielded[k].loc)

\* Two tiles yielded while another planned tile was skipped or dropped.
C6_Witness ==
    /\ Len(yielded) >= 2
    /\ Len(yielded) < Len(slices)
    /\ r_pc = "done"

\* C7: at most queue_size blocks wait between the reader's worker and its
\* consumer, and at most max_queue between the Writer's caller and its
\* worker.
C7_InFlightBounded ==
    /\ Len(results_queue) <= queue_size
    /\ Len(write_queue) <= max_queue

\* C8: a load that raises in the worker is never dropped: its error waits
\* in the worker or in the results queue until get_data re-raises it, and
\* the iteration does not complete normally after it.
C8_ReadErrorReachesConsumer ==
    /\ r_pc \in {"finishing", "done"} => load_errors = {}
    /\ r_pc # "raised" =>
         Cardinality(load_errors) =
             ErrorsIn(results_queue)
               + (IF rw_pc = "holding" /\ rw_item.kind = "error" THEN 1 ELSE 0)
    /\ r_pc = "raised" => load_errors # {}

\* The second tile's load raised and the consumer, holding the first tile,
\* got the error on its next retrieval.
C8_Witness ==
    /\ r_pc = "raised"
    /\ Len(yielded) >= 1
    /\ Cardinality(load_errors) = 1

\* C9: once the consumer has stopped draining early and the run has come
\* to rest, the worker was signalled to stop and has ended.
C9_AbandonedWorkerEnds ==
    (r_pc = "abandoned" /\ ~ENABLED ReaderNext)
        => (finished_event /\ rw_pc = "stopped")

\* C10: when notify_finished returns, no write is pending and every request
\* queued before was written into its file: the files hold what writing the
\* requests in order gives.
C10_NotifyFinishedDrains ==
    wr_pc = "returned" =>
        /\ write_queue = <<>>
        /\ ww_pc = "stopped"
        /\ applied = Written(submitted)
        /\ Len(applied) + Len(write_errors) = Len(submitted)
        /\ files = ApplyAll(InitialFiles, exists, submitted)

\* Three writes, as create_ps queues per tile, through the default queue.
C10_Witness ==
    /\ wr_pc = "returned"
    /\ max_queue = 0
    /\ Len(applied) = 3

\* C11: round trip through the background writer: once every tile of the
\* array was queued at its offset, in whatever order, and notify_finished
\* has returned, the file holds what one direct write of the whole array
\* gives.
C11_TiledWriteEqualsDirectWrite ==
    (/\ wr_pc = "returned"
     /\ \A i \in DOMAIN PictureTiles :
          TileRequest(PictureTiles[i]) \in Range(submitted))
        => files = write_block(InitialFiles, WholeRequest)

\* All tiles written through the worker, the first one queued being the
\* last tile of the array.
C11_Witness ==
    /\ wr_pc = "returned"
    /\ ~debug
    /\ Len(submitted) = Len(PictureTiles)
    /\ Len(PictureTiles) >= 4
    /\ submitted[1] = TileRequest(PictureTiles[Len(PictureTiles)])
    /\ files["f1"] = Picture

\* C12: the writer never creates a file: a request whose target file does
\* not exist is never written, it ends as an error once it is no longer
\* pending, and no file appears at its path.
C12_MissingFileNeverCreated ==
    /\ \A i \in DOMAIN applied : applied[i].filename \in exists
    /\ \A f \in FileNames \ exists : files[f] = NoFile
    /\ \A i \in DOMAIN submitted :
         submitted[i].filename \notin exists =>
             \/ submitted[i] \in Range(write_queue)
             \/ ww_pc = "writing" /\ ww_item = submitted[i]
             \/ submitted[i] \in Range(write_errors)

\* A block as large as the raster was queued for a file that does not
\* exist, between two writes to the file that does, and notify_finished
\* has returned.
C12_Witness ==
    /\ wr_pc = "returned"
    /\ exists = {"f1"}
    /\ Len(submitted) = 3
    /\ submitted[2].filename = "f2"
    /\ Len(submitted[2].data) = FileRows
    /\ submitted[2].row_start = 0
    /\ submitted[2] \in Range(write_errors)
    /\ Len(applied) = 2

\* ---- helpers of the workflow's properties ----
NumFiles == Len(file_list_all)
NumBatches == (NumFiles + ministack_size - 1) \div ministack_size
RawPart(call) == SelectSeq(call, LAMBDA f : f[1] = "slc")
RawParts == [i \in DOMAIN single_calls |-> RawPart(single_calls[i])]
\* The batches whose routine has returned.
Completed ==
    Len(single_calls)
      - (IF s_pc = "in_single" \/ s_error = "SingleError" THEN 1 ELSE 0)

\* C13: for ministack_size m >= 1 the raw files are handed out in
\* ceil(N/m) batches of 1..m files each, contiguous and in time order:
\* the batches so far, one after the other, are the head of the file list,
\* and the whole list once the run has returned.
C13_ContiguousBatches ==
    ministack_size >= 1 =>
        /\ Len(single_calls) <= NumBatches
        /\ \A i \in DOMAIN single_calls :
             Len(RawParts[i]) >= 1 /\ Len(RawParts[i]) <= ministack_size
        /\ Chain(RawParts) = SubSeq(file_list_all, 1, Len(Chain(RawParts)))
        /\ s_pc = "returned" =>
             /\ Len(single_calls) = NumBatches
             /\ Chain(RawParts) = file_list_all

\* Five files in batches of two: raw sizes 2, 2, 1.
C13_Witness ==
    /\ s_pc = "returned"
    /\ NumFiles = 5
    /\ ministack_size = 2
    /\ Len(single_calls) = 3
    /\ Len(RawParts[3]) = 1

\* C14: the list handed to the routine for batch i (0-based) is the
\* compressed SLCs of batches 0..i-1 in batch order followed by the raw
\* files of batch i in their order; its length is i + |batch i|.
C14_EffectiveInput ==
    ministack_size >= 1 =>
        \A k \in DOMAIN single_calls :
            LET raw == SubSeq(file_list_all, (k - 1) * ministack_size + 1,
                              Min(k * ministack_size, NumFiles))
            IN /\ single_calls[k] = [j \in 1..(k - 1) |-> CompSlc(j - 1)] \o raw
               /\ Len(single_calls[k]) = (k - 1) + Len(raw)

\* Five files in batches of two: effective lengths 2, 3, 3.
C14_Witness ==
    /\ s_pc = "returned"
    /\ NumFiles = 5
    /\ ministack_size = 2
    /\ Len(single_calls[1]) = 2
    /\ Len(single_calls[2]) = 3
    /\ Len(single_calls[3]) = 3
    /\ single_calls[3][2] = CompSlc(1)

\* C15: after k batches have completed comp_slc_files has exactly k
\* entries, in batch order, and a step only ever appends one entry to it.
C15_OneCompressedPerBatch ==
    /\ [](/\ Len(comp_slc_files) = Completed
          /\ \A i \in DOMAIN comp_slc_files : comp_slc_files[i] = CompSlc(i - 1))
    /\ [][\/ comp_slc_files' = comp_slc_files
          \/ /\ Len(comp_slc_files') = Len(comp_slc_files) + 1
             /\ SubSeq(comp_slc_files', 1, Len(comp_slc_files)) = comp_slc_files
         ]_vars

\* Three batches completed, a fourth is running.
C15_Witness ==
    /\ s_pc = "in_single"
    /\ Len(comp_slc_files) = 3
    /\ Len(single_calls) = 4

\* C16: the routine for the next batch is called only after the one before
\* has returned its compressed SLC: at most one batch is in progress, and
\* while the batch i is in progress exactly i compressed SLCs exist.
C16_BatchesStrictlySequential ==
    /\ Len(single_calls) <= Len(comp_slc_files) + 1
    /\ s_pc = "in_single" => Len(single_calls) = Len(comp_slc_files) + 1
    /\ s_pc \in {"loop", "returned"} => Len(single_calls) = Len(comp_slc_files)

\* The second batch is in progress, the first one has returned.
C16_Witness ==
    /\ s_pc = "in_single"
    /\ Len(single_calls) = 2
    /\ comp_slc_files = <<CompSlc(0)>>

\* C17: when the routine fails on a batch the run ends with that failure:
\* no later batch is called, nothing is averaged or renamed into
\* output_folder, and no further step is taken.
C17_BatchFailureAborts ==
    s_error = "SingleError" =>
        /\ s_pc = "raised"
        /\ Len(single_calls) = Len(comp_slc_files) + 1
        /\ output_tcorr = NoFile
        /\ ~tcorr_averaged
        /\ top_files = {}
        /\ pl_outputs = <<>> /\ comp_outputs = <<>>
        /\ ~ENABLED SeqNext

\* The second of three batches failed.
C17_Witness ==
    /\ s_error = "SingleError"
    /\ Len(single_calls) = 2
    /\ Len(ministack_starts) = 3
    /\ Len(comp_slc_files) = 1

\* A sample is missing when it is NaN or the nodata value of its raster.
Missing(sample, nd) == sample = NaN \/ (nd # NoNodata /\ sample = nd)

\* C18: once the run has returned, the final coherence raster is the only
\* batch's raster itself, moved and not averaged, when one batch ran; when
\* several ran it is per pixel the mean of the samples that are not missing,
\* a missing sample being a NaN or the nodata value of its raster.
C18_FinalCoherence ==
    s_pc = "returned" =>
        IF Len(tcorr_files) = 1
        THEN /\ output_tcorr = tcorr_data[1]
             /\ ~tcorr_averaged
             /\ tcorr_files[1] \notin work_files
        ELSE /\ tcorr_averaged
             /\ \A p \in TcorrPixels :
                  LET V == {i \in DOMAIN tcorr_data :
                               ~Missing(tcorr_data[i][p], tcorr_nodata)}
                  IN V # {} =>
                       /\ output_tcorr[p] # NaN
                       /\ output_tcorr[p][1] * Cardinality(V)
                            = output_tcorr[p][2] * SumOver(tcorr_data, p, V)

\* C19: a ministack_size <= 0 is rejected as a configuration error: the
\* first thing the run does with it is to raise the error of a refused
\* argument (ValueError); it does not go on to the loop over the batches or
\* to the averaging, no batch is handed to the routine and nothing is
\* created.
C19_NonPositiveMinistackRejected ==
    (ministack_size <= 0 /\ s_pc \notin {"idle", "start"}) =>
        /\ s_pc = "raised"
        /\ s_error = "ValueError"
        /\ single_calls = <<>>
        /\ made_dirs = {} /\ work_files = {} /\ top_files = {}
        /\ output_tcorr = NoFile

\* C20: in calc_ps_block a pixel with fewer than min_count samples that are
\* not NaN gets the dispersion 0 and is not a PS, whatever its dispersion
\* would be; and a pixel whose dispersion is 0 is not a PS, whatever the
\* threshold.
C20_TooFewOrZeroNeverPs ==
    ps_pc = "done" =>
        \A p \in PsPixels :
            /\ CountValid(Column(stack_mag, p))
                   < MinCount(min_count_arg, Len(stack_mag))
                 => ps_amp_disp[p] = Zero /\ ~ps_ps[p]
            /\ ps_amp_disp[p][1] = 0 => ~ps_ps[p]

\* The first pixel has two samples of three, 1 and 2, a dispersion of 1/3
\* below the threshold 1/2, and min_count is 3; the second pixel has three
\* equal samples, a dispersion of 0.
C20_Witness ==
    /\ ps_pc = "done"
    /\ Len(stack_mag) = 3
    /\ min_count_arg = <<3>>
    /\ amp_dispersion_threshold = <<1, 2>>
    /\ Column(stack_mag, 1) = <<Val(1), NaN, Val(2)>>
    /\ LessThan(StdOverMean(Column(stack_mag, 1)), amp_dispersion_threshold)
    /\ Column(stack_mag, 2) = <<Val(2), Val(2), Val(2)>>
    /\ ps_amp_disp = [p \in PsPixels |-> Zero]
    /\ ps_ps = [p \in PsPixels |-> FALSE]

\* C21: in calc_ps_block a pixel with fewer than min_count samples that are
\* not NaN gets the mean 0 and the dispersion 0, and is not a PS.
C21_TooFewMeanAndDispersionZero ==
    ps_pc = "done" =>
        \A p \in PsPixels :
            CountValid(Column(stack_mag, p))
                < MinCount(min_count_arg, Len(stack_mag))
              => /\ ps_mean[p][1] = 0
                 /\ ps_amp_disp[p] = Zero
                 /\ ~ps_ps[p]

\* C24: when one native chunk already needs the whole budget or more
\* (chunk_rows * chunk_cols * nstack * bytes_per_pixel >= max_bytes),
\* _increment_until_max returns the chunk shape it was given, unchanged.
C24_OversizedChunkReturnedAsIs ==
    (p_pc = "done"
        /\ BlockBytes(file_chunk_size, nstack, bytes_per_pixel) >= max_bytes)
      => cur_block_shape = file_chunk_size

\* C24 witness: the planner has returned for a chunk that is at least the
\* budget and smaller than the raster, so only the budget stopped the loop.
C24_Witness ==
    /\ p_pc = "done"
    /\ BlockBytes(file_chunk_size, nstack, bytes_per_pixel) >= max_bytes
    /\ file_chunk_size # shape
    /\ cur_block_shape = file_chunk_size

\* C25: when EagerLoader.iter_blocks is drained, one result has been
\* retrieved for each queued read, notify_finished was issued once, and only
\* after the last queued tile was retrieved, and the worker has stopped.
C25_DrainRetrievesAllThenStops ==
    /\ n_finished <= 1
    /\ n_finished = 1 =>
           /\ n_got = Len(queued_slices)
           /\ work_queue = <<>>
           /\ results_queue = <<>>
    /\ r_pc = "done" =>
           /\ n_finished = 1
           /\ n_got = Len(queued_slices)
           /\ rw_pc = "stopped"

\* C25 witness: a drained iteration over at least two queued reads, one of
\* which was skipped by the mask beforehand.
C25_Witness ==
    /\ r_pc = "done"
    /\ Len(queued_slices) >= 2
    /\ Len(queued_slices) < Len(slices)
    /\ n_got = Len(queued_slices)
    /\ n_finished = 1
    /\ rw_pc = "stopped"

\* C26: a Writer in debug mode writes each block within queue_write, so no
\* write is ever pending, and the call sequence queue_write ..., num_queued,
\* notify_finished completes: it raises only if a write itself failed.
C26_DebugSequenceCompletes ==
    debug =>
        /\ write_queue = <<>>
        /\ ww_pc = "off"
        /\ Len(applied) + Len(write_errors) = Len(submitted)
        /\ wr_pc = "raised" => write_errors # <<>>

\* C28: when run_wrapped_phase_sequential returns, its first list holds the
\* output of every epoch, batch after batch, each once; its second list the
\* compressed SLC of every batch, in order; and every file the two lists
\* name is in the top-level output folder, no longer in a batch folder.
C28_ReturnedListsFlatAndRelocated ==
    s_pc = "returned" =>
        /\ pl_outputs = [k \in 1..NumFiles |-> EpochOutput(file_list_all[k])]
        /\ comp_outputs = [i \in 1..NumBatches |-> CompSlc(i - 1)]
        /\ Elems(pl_outputs) \cup Elems(comp_outputs) \subseteq top_files
        /\ (Elems(pl_outputs) \cup Elems(comp_outputs)) \cap work_files = {}

\* C28 witness: a run of three batches, the last one shorter, has returned.
C28_Witness ==
    /\ s_pc = "returned"
    /\ NumBatches = 3
    /\ NumFiles % ministack_size # 0
    /\ Len(pl_outputs) = NumFiles
    /\ Len(comp_outputs) = 3

\* The most passes the loop of _increment_until_max makes: a side reaches
\* the raster's after ceil(side / chunk) visits, and the sides take turns.
MaxPasses ==
    2 * Max(AxisBlocks(shape[1], file_chunk_size[1]),
            AxisBlocks(shape[2], file_chunk_size[2]))

\* C30: _increment_until_max terminates for every input with positive chunk
\* sides, nstack and bytes_per_pixel, whatever the budget: it returns, the
\* block never outgrows the raster, and the loop has made no more passes
\* than it takes the block to become the whole raster.
C30_IncrementTerminates ==
    /\ <>(p_pc = "done")
    /\ [](p_pc \in {"loop", "done"} =>
              /\ idx - 1 <= MaxPasses
              /\ cur_block_shape[1] <= shape[1]
              /\ cur_block_shape[2] <= shape[2])

\* C30 witness: with a budget no block exhausts, the loop has ended because
\* the block became the whole raster, after several passes.
C30_Witness ==
    /\ p_pc = "done"
    /\ GreaterThanOne(chunks_per_block)
    /\ cur_block_shape = shape
    /\ idx > 3

\* C29: every job unwrap.run submits pairs an interferogram with the
\* correlation file that has the same position in the caller's lists,
\* whichever outputs exist already and whatever overwrite is.
C29_SubmittedPairsAligned ==
    \A j \in DOMAIN futures :
        \E k \in DOMAIN ifg_filenames :
            /\ futures[j].ifg_filename = ifg_filenames[k]
            /\ futures[j].corr_filename = cor_filenames[k]
            /\ futures[j].unw_filename = all_out_files[k]

\* The three outputs create_ps writes to.
PsOutputs ==
    {"output_amp_mean_file", "output_amp_dispersion_file", "output_file"}
\* How many times a block was queued for a file at the offset of a tile.
TimesQueued(filename, tile) ==
    Cardinality({k \in DOMAIN cp_writes :
                    /\ cp_writes[k].filename = filename
                    /\ cp_writes[k].row_start = tile.rows[1]
                    /\ cp_writes[k].col_start = tile.cols[1]})
\* The tiles create_ps has written: those it computed and those it filled.
WrittenTiles == Elems(cp_computed) \cup Elems(cp_filled)

\* C22: when create_ps, called without a nodata_mask, has returned, each
\* tile of the raster's tiling has had one mean block, one dispersion block
\* and one PS block queued at its (row start, col start): no tile of the
\* outputs is left unwritten.
C22_EveryTileWritten ==
    (cp_pc = "done" /\ ~use_existing /\ cp_nodata_mask = NoMask) =>
        \A i \in DOMAIN cp_slices : \A f \in PsOutputs :
            TimesQueued(f, cp_slices[i]) = 1

\* C23: when create_ps is called with a nodata_mask, a tile the mask covers
\* entirely is skipped: its read is not queued and calc_ps_block is not run
\* for it.
C23_MaskedTilesSkipped ==
    cp_nodata_mask # NoMask =>
        \A i \in DOMAIN cp_slices :
            MaskAll(cp_nodata_mask, cp_slices[i]) =>
                /\ cp_slices[i] \notin Elems(cp_queued)
                /\ cp_slices[i] \notin Elems(cp_computed)

\* C27: a pixel whose stored dispersion is 0 has the PS value 255, not 0,
\* in every tile create_ps computed, in every tile it filled with nodata,
\* and in the output of _use_existing_files: in the blocks it queues for a
\* tile, and in the files whichever of the queued blocks have been applied.
C27_InvalidDispersionStoredAsNodata ==
    /\ \A j, k \in DOMAIN cp_writes :
           (/\ cp_writes[j].filename = "output_amp_dispersion_file"
            /\ cp_writes[k].filename = "output_file"
            /\ cp_writes[j].row_start = cp_writes[k].row_start) =>
               \A i \in DOMAIN cp_writes[j].data :
                   cp_writes[j].data[i][1] = 0 =>
                       cp_writes[k].data[i] = PsNodata
    /\ \A tile \in WrittenTiles : \A r \in RowsOf(tile) :
           out_amp_disp[r][1] = 0 => out_ps[r] = PsNodata
    /\ (use_existing /\ cp_pc = "done") =>
           \A r \in DOMAIN out_ps :
               out_amp_disp[r][1] = 0 => out_ps[r] = PsNodata

\* C27 witness: create_ps has returned after computing a tile with a pixel
\* of dispersion 0, stored as 255, and filling another tile with nodata.
C27_Witness ==
    /\ cp_pc = "done"
    /\ cp_filled # <<>>
    /\ \E tile \in Elems(cp_computed) : \E r \in RowsOf(tile) :
           /\ out_amp_disp[r][1] = 0
           /\ out_amp_mean[r][1] # 0
           /\ out_ps[r] = PsNodata

=============================================================================
